---- MODULE Spec2Model ----
(***************************************************************************)
(* A model of the save-data launcher (KodeMat/PiratedHollowKnight):        *)
(* the directory synchronizer, the freshness resolver, the instance lock,  *)
(* the transactional-swap session of LaunchGame and the debounced          *)
(* filesystem watcher of the background sync scheduler.                    *)
(*                                                                         *)
(* The module holds several specifications over one set of variables.     *)
(* Each specification drives one group of variables and leaves the others *)
(* at their idle values:                                                   *)
(*   SpecSync     Sync / CopyToMaster / copyFromMaster / cloud sync-down   *)
(*   SpecResolve  findLatestSource and the resolver of runIsolatedMode     *)
(*   SpecLock     acquireLock / releaseLock run by concurrent launchers    *)
(*   SpecSwap     one swap-strategy session of LaunchGame                  *)
(*   SpecWatch    the debounce timer of startWatcherBackups                *)
(***************************************************************************)
EXTENDS Integers, Sequences, FiniteSets, TLC

\* ------------------------------------------------------------------ bounds
\* Number of file names a directory tree ranges over.
MaxFiles == 2
\* Number of targets in the registry (cfg.SyncTargets) of SpecResolve.
MaxTargets == 3
\* Latest modification time a target reports.
MaxTime == 2
\* Number of launcher processes started against one installation.
MaxProcs == 2
\* Number of file operations of one session that fail although they could
\* have succeeded.
MaxFaults == 1
\* Last instant of the clock of SpecWatch, in seconds.
MaxClock == 6
\* Number of write events the watcher delivers.
MaxWrites == 3
\* Number of targets in the registry of SpecQuit.
MaxQuitTargets == 2
\* Number of targets in the registry of SpecWatch.
MaxSchedTargets == 3
\* Longest interval of a periodic target, in seconds.
MaxInterval == 3

\* ------------------------------------------------------- directory trees
\* A directory is NoDir (the path does not exist) or a tree: a function from
\* file names to the file's content, Absent when the tree has no such file.
\* File names are numbered in the order os.ReadDir returns them (sorted by
\* name); a name stands for a path below the root, so that the recursion of
\* CopyDir into sub-directories is the walk over the names in order.
Files == 1..MaxFiles
Absent == "absent"
\* The content left in a destination file when io.Copy fails after os.Create
\* has truncated it.
Partial == "partial"
Local == "Local"
Gdrive == "Gdrive"
SyncType == {Local, Gdrive}

NoFiles == [f \in Files |-> Absent]
NoDir == [exists |-> FALSE, files |-> NoFiles]
Dir(t) == [exists |-> TRUE, files |-> t]
EmptyDir == Dir(NoFiles)

\* util.PathExists
PathExists(d) == d.exists

Present(d) == {f \in Files : d.files[f] # Absent}

\* The outcome of a call that writes a directory: the error it returned and
\* the directory it left behind.
Outcome(e, d) == [err |-> e, dst |-> d]

\* util.copyFile: open the source, create (truncate) the destination, copy.
copyFile(src, dst, f) ==
    { Outcome(FALSE, Dir([dst.files EXCEPT ![f] = src.files[f]])),
      Outcome(TRUE, dst),
      Outcome(TRUE, Dir([dst.files EXCEPT ![f] = Partial])) }

\* The loop of util.CopyDir over the entries of src, from entry f on; the
\* first error ends the copy and what was copied before it stays.
RECURSIVE CopyEntries(_, _, _)
CopyEntries(src, dst, f) ==
    IF f > MaxFiles THEN { Outcome(FALSE, dst) }
    ELSE IF src.files[f] = Absent THEN CopyEntries(src, dst, f + 1)
    ELSE UNION { IF o.err THEN {o} ELSE CopyEntries(src, o.dst, f + 1) :
                 o \in copyFile(src, dst, f) }

\* util.CopyDir: os.Stat(src), os.MkdirAll(dst), os.ReadDir(src), then the
\* entries in order. Nothing of dst is removed.
CopyDir(src, dst) ==
    IF ~src.exists THEN { Outcome(TRUE, dst) }
    ELSE LET made == IF dst.exists THEN dst ELSE EmptyDir
         IN  { Outcome(TRUE, dst), Outcome(TRUE, made) }
             \cup CopyEntries(src, made, 1)

\* os.RemoveAll: nil when the path is gone (or never existed); on an error
\* any part of the tree may be left.
RemoveAll(d) ==
    { Outcome(FALSE, NoDir) } \cup
    IF ~d.exists THEN {}
    ELSE { Outcome(TRUE, Dir([f \in Files |-> IF f \in S THEN d.files[f]
                                              ELSE Absent])) :
           S \in SUBSET Present(d) }

\* backup.RunRcloneCommand: runs the external tool with the verb and the two
\* paths. `done` is the state of the context handed to exec.CommandContext
\* (FALSE for the variant without a context): a command whose context is
\* done does not run. "copy" adds and overwrites at the destination; "sync"
\* makes the destination identical to the source, deleting what the source
\* does not have. A failed run leaves any part of the transfer behind.
RunRcloneCommand(verb, src, dst, done) ==
    { Outcome(TRUE, dst) } \cup
    IF done \/ ~src.exists THEN {}
    ELSE LET base == IF dst.exists THEN dst ELSE EmptyDir
             put(S) == Dir([f \in Files |-> IF f \in S THEN src.files[f]
                                            ELSE base.files[f]])
         IN  { Outcome(TRUE, put(S)) : S \in SUBSET Present(src) }
             \cup { Outcome(FALSE, IF verb = "sync" THEN src
                                   ELSE put(Present(src))) }

\* backup.Sync without the cleaning of a local destination.
Sync_noclean(source, src, destination, dst, done) ==
    IF source = Local /\ destination = Local
    THEN CopyDir(src, dst)
    ELSE RunRcloneCommand("copy", src, dst, done)

\* backup.Sync(ctx, cfg, source, destination): source and destination are
\* the types of the two targets, src and dst the directories at their paths.
Sync(source, src, destination, dst, done) ==
    IF source = Local /\ destination = Local
    THEN IF PathExists(dst)
         THEN UNION { IF r.err THEN {r} ELSE CopyDir(src, r.dst) :
                      r \in RemoveAll(dst) }
         ELSE CopyDir(src, dst)
    ELSE RunRcloneCommand("copy", src, dst, done)

\* backup.CopyToMaster(cfg, instanceDir, master).
CopyToMaster(src, master, dst) ==
    IF master = Local
    THEN IF PathExists(dst)
         THEN UNION { IF r.err THEN {r} ELSE CopyDir(src, r.dst) :
                      r \in RemoveAll(dst) }
         ELSE CopyDir(src, dst)
    ELSE RunRcloneCommand("copy", src, dst, FALSE)

\* launcher.copyFromMaster(cfg, master, instanceDir).
copyFromMaster(master, src, dst) ==
    IF master = Local
    THEN IF ~PathExists(src) THEN { Outcome(FALSE, dst) }
         ELSE CopyDir(src, dst)
    ELSE RunRcloneCommand("copy", src, dst, FALSE)

\* The pre-launch sync-down of runOnlineOnlyMode, from the newest cloud
\* target to the local save path.
syncDown(src, dst) == RunRcloneCommand("sync", src, dst, FALSE)

\* ----------------------------------------------------- freshness resolver
\* A target of the registry with the state of its storage: its type, whether
\* the storage is present, absent (the directory does not exist) or
\* unreachable (the query fails), and the latest modification time in it.
Status == {"present", "absent", "unreachable"}
\* time.Time{}, the zero time
ZeroTime == 0
Times == ZeroTime..MaxTime
Target(type, status, mtime) == [type |-> type, status |-> status, mtime |-> mtime]
\* config.SyncTarget{}: the zero value, whose Type is Local and Path is "".
ZeroTarget == Target(Local, "absent", ZeroTime)
Targets == { Target(ty, "present", t) : ty \in SyncType, t \in Times }
           \cup { Target(ty, st, ZeroTime) :
                  ty \in SyncType, st \in {"absent", "unreachable"} }

Query(e, t) == [err |-> e, time |-> t]

\* util.GetDirLastModTime: the walk's error, except that a directory that
\* does not exist gives the zero time and no error.
GetDirLastModTime(t) ==
    IF t.status = "unreachable" THEN Query(TRUE, ZeroTime)
    ELSE IF t.status = "absent" THEN Query(FALSE, ZeroTime)
    ELSE Query(FALSE, t.mtime)

\* backup.GetCloudDirLastModTime: the listing's error (also when the context
\* is done), except that "directory not found" gives the zero time and no
\* error.
GetCloudDirLastModTime(t, done) ==
    IF done \/ t.status = "unreachable" THEN Query(TRUE, ZeroTime)
    ELSE IF t.status = "absent" THEN Query(FALSE, ZeroTime)
    ELSE Query(FALSE, t.mtime)

ModTimeOf(t, done) ==
    IF t.type = Local THEN GetDirLastModTime(t)
    ELSE GetCloudDirLastModTime(t, done)

\* time.Time.After
After(a, b) == a > b

\* The update condition with the first-found flag forgotten.
Newer_nofirst(foundAny, currentModTime, latestModTime) ==
    After(currentModTime, latestModTime)

\* The update condition with the comparison turned around.
Newer_before(foundAny, currentModTime, latestModTime) ==
    ~foundAny \/ After(latestModTime, currentModTime)

\* The update condition that also takes a target of equal time.
Newer_orequal(foundAny, currentModTime, latestModTime) ==
    ~foundAny \/ ~After(latestModTime, currentModTime)

\* The update condition of findLatestSource and of runIsolatedMode:
\* !foundAny || currentModTime.After(latestModTime)
Newer(foundAny, currentModTime, latestModTime) ==
    ~foundAny \/ After(currentModTime, latestModTime)

\* The resolver's locals after the targets up to n: the index of
\* latestSourceTarget (0: still the zero value), latestModTime and foundAny.
RECURSIVE LatestAfter(_, _, _)
LatestAfter(targets, n, done) ==
    IF n = 0 THEN [latest |-> 0, time |-> ZeroTime, found |-> FALSE]
    ELSE LET prev == LatestAfter(targets, n - 1, done)
             q == ModTimeOf(targets[n], done)
         IN  IF q.err THEN prev
             ELSE IF Newer(prev.found, q.time, prev.time)
                  THEN [latest |-> n, time |-> q.time, found |-> TRUE]
                  ELSE prev

\* launcher.findLatestSource: the index of the target returned, and the error.
findLatestSource(targets, done) ==
    LET r == LatestAfter(targets, Len(targets), done)
    IN  [err |-> ~r.found, latest |-> r.latest]

\* The directory at a target's path; the zero value's path "" does not exist.
TargetTree == Dir([f \in Files |-> "s"])
DirOf(t) == IF t.status = "present" THEN TargetTree ELSE NoDir

\* ----------------------------------------------------------- instance lock
\* The launcher processes, named by their process ids.
Procs == 1..MaxProcs
\* The lock file hk.lock: absent, holding text that is no number, or holding
\* a process id.
NoLock == [exists |-> FALSE, parses |-> FALSE, pid |-> 0]
Garbage == [exists |-> TRUE, parses |-> FALSE, pid |-> 0]
LockOf(p) == [exists |-> TRUE, parses |-> TRUE, pid |-> p]

\* ------------------------------------------------------------- variables
VARIABLES
    \* SpecSync: one source and one destination; sLast is the latest run (its
    \* operation, its error and the destination before it), sPrev the run
    \* before that
    sSrcKind, sDstKind, sSrc, sDst, sLast, sPrev,
    \* SpecResolve: the registry, the strategy that resolves ("swap":
    \* LaunchGame with findLatestSource, "isolated": runIsolatedMode), the
    \* position in it, the loop index and the loop's locals, the error
    \* returned, the working location and whether the process was started
    rTargets, rMode, rpc, rIdx, rLatest, rLatestTime, rFound, rRet, rWork,
    rLaunched,
    \* The lock and the launcher processes: the lock file, which processes
    \* are alive, each one's position, the pid it parsed from the lock file,
    \* the result of its acquireLock, its deferred calls (last one first),
    \* and for the check of acquireLock the lock file it found on entry and
    \* whether it has run undisturbed by the other processes since
    lock, alive, pc, pidRead, lret, defers, seen, alone,
    \* One swap session (LaunchGame): whether the executable exists, the
    \* registry and the directory stored at each target, the real save
    \* directory, the backup directory and the path backupRealSaves
    \* returned, the real save directory as it was before the session, the
    \* state of the context, the game process, the index of
    \* latestSourceTarget, the result of LaunchGame, the number of failed
    \* file operations and the outcome of restoreRealSaves
    exe, swTargets, store, real, backup, backupPath, pre, ctxDone, game,
    latest, ret, faults, restore,
    \* The watcher of startWatcherBackups: the clock, the times at which the
    \* handler received a write event, the deadlines of the running timers
    \* made for debounceTimer, the sync passes started (the time each began
    \* and the last write before it), and whether the handler still listens
    now, events, debounceTimer, passes, watching,
    \* The scheduler around it (StartBackgroundSync): the Interval of each
    \* target of the registry, the time of the last write to the watched
    \* directory (-1: none), the next tick of each periodic goroutine's ticker (-1:
    \* no goroutine), for each target the time of the last sync tried and of
    \* the last one that succeeded (-1: none), whether the context is done,
    \* whether it was done before the present instant, and whether a sync
    \* began at an instant after the one at which it was done
    wTargets, lastWrite, tickers, lastTry, lastOk, cancelled, settled, late,
    \* The synchronization after the game has exited: the strategy, the
    \* registry with each target's quit_sync option, cfg.SyncOnQuit, the index
    \* of latestSourceTarget, the working save directory, the directory at
    \* each target, the loop index of copySavesBack, the position, the
    \* result of LaunchGame and the targets whose copy returned an error
    qMode, qTargets, qGlobal, qLatest, qWork, qStore, qIdx, qpc, qRet, qFailed,
    \* A session of runIsolatedMode: the registry, the place each target's
    \* path names, each target's effective sync-on-quit flag, the directory
    \* at every place, the real save directory before the session, the index
    \* of latestSourceTarget, the position, the result, the game process,
    \* the context, the loop index of copySavesBack, whether the instance
    \* root was created, what its removal returned, whether a failed removal
    \* was logged, and whether setup and cmd.Wait have returned
    sbTargets, sbPath, sbQuit, sbFs, sbPre, sbLatest, sbpc, sbRet, sbGame,
    sbCancelled, sbIdx, sbCreated, sbCleanup, sbLogged, sbPopulated, sbWaited,
    \* getModifiedEnv: os.Environ(), the environment returned, the position
    originalEnv, newEnv, epc,
    \* config.Load: the revision of config.go, the values of the -target
    \* flag, cfg.SyncTargets, the error returned, the position
    revision, rawTargets, cfgTargets, cfgErr, cpc,
    \* startWatcherBackups with passes that take time: the clock, the
    \* debounce timer, the number of watcher targets, the passes in progress
    \* (each at the target it is syncing), the number of write events, the
    \* Interval of each target of the registry, the targets each pass in
    \* progress has synced so far, and those the pass that ended last synced
    pNow, pTimer, pTargets, pRunning, pWrites, pRegistry, pLog, pLast,
    \* LaunchGame and runOnlineOnlyMode: the revision of launcher.go, whether
    \* the executable exists, the registry, the local save directory (its
    \* state and the time of its newest file), the strategy LaunchGame
    \* called, the position, the index of newestCloudTarget (0: nil), the
    \* index of the target the local save directory was synced down from (0:
    \* none), the game process, the result, and the local save directory as
    \* it was before the call
    lnRevision, lnExe, lnTargets, lnLocal, lnStrategy, lnpc, lnNewest, lnFrom,
    lnGame, lnRet, lnPre,
    \* downloadAndExtractHollowKnight: cfg.DownloadRetries, the loop counter
    \* i, the position, lastErr, the file at downloadedFilePath, the number
    \* of download attempts made, the file the extractor was started on
    \* ("unstarted": it was not started) and the result
    dRetries, dI, dpc, dLastErr, dFile, dAttempts, dFrom, dRet

launchVars == <<lnRevision, lnExe, lnTargets, lnLocal, lnStrategy, lnpc,
                lnNewest, lnFrom, lnGame, lnRet, lnPre>>
dlVars == <<dRetries, dI, dpc, dLastErr, dFile, dAttempts, dFrom, dRet>>
passVars == <<pNow, pTimer, pTargets, pRunning, pWrites, pRegistry, pLog, pLast>>
cfgVars == <<revision, rawTargets, cfgTargets, cfgErr, cpc>>
envVars == <<originalEnv, newEnv, epc>>
sandVars == <<sbTargets, sbPath, sbQuit, sbFs, sbPre, sbLatest, sbpc, sbRet,
              sbGame, sbCancelled, sbIdx, sbCreated, sbCleanup, sbLogged,
              sbPopulated, sbWaited>>

quitVars == <<qMode, qTargets, qGlobal, qLatest, qWork, qStore, qIdx, qpc,
              qRet, qFailed>>
watchVars == <<now, events, debounceTimer, passes, watching,
               wTargets, lastWrite, tickers, lastTry, lastOk, cancelled, settled,
               late>>
swapVars == <<exe, swTargets, store, real, backup, backupPath, pre, ctxDone,
              game, latest, ret, faults, restore>>
syncVars == <<sSrcKind, sDstKind, sSrc, sDst, sLast, sPrev>>
lockVars == <<lock, alive, pc, pidRead, lret, defers, seen, alone>>
resolveVars == <<rTargets, rMode, rpc, rIdx, rLatest, rLatestTime, rFound,
                 rRet, rWork, rLaunched>>
vars == <<syncVars, resolveVars, lockVars, swapVars, watchVars, quitVars, sandVars, envVars, cfgVars, passVars, launchVars, dlVars>>
\* What the steps of a launcher on the lock file leave alone.
otherVars == <<syncVars, resolveVars, swapVars, watchVars, quitVars, sandVars, envVars, cfgVars, passVars, launchVars, dlVars>>

\* =================================================================== SpecSync
\* A file of the source holds "s"; a file of the destination starts with the
\* same content or with another one, "d".
SrcTrees == { Dir(t) : t \in [Files -> {"s", Absent}] }
DstTrees == { Dir(t) : t \in [Files -> {"s", "d", Absent}] }
NoRun == [op |-> "none", err |-> FALSE, before |-> NoDir]

ResolveIdle ==
    /\ rTargets = <<>> /\ rMode = "swap" /\ rpc = "idle" /\ rIdx = 1
    /\ rLatest = 0 /\ rLatestTime = ZeroTime /\ rFound = FALSE
    /\ rRet = "none" /\ rWork = NoDir /\ rLaunched = FALSE

LockIdle ==
    /\ lock = NoLock
    /\ alive = [p \in Procs |-> FALSE]
    /\ pc = [p \in Procs |-> "dead"]
    /\ pidRead = [p \in Procs |-> 0]
    /\ lret = [p \in Procs |-> "none"]
    /\ defers = [p \in Procs |-> <<>>]
    /\ seen = [p \in Procs |-> NoLock]
    /\ alone = [p \in Procs |-> TRUE]

EnvIdle == originalEnv = <<>> /\ newEnv = <<>> /\ epc = "idle"

LaunchIdle ==
    /\ lnRevision = "none" /\ lnExe = FALSE /\ lnTargets = <<>>
    /\ lnLocal = ZeroTarget /\ lnStrategy = "none" /\ lnpc = "idle"
    /\ lnNewest = 0 /\ lnFrom = 0 /\ lnGame = "none" /\ lnRet = "none"
    /\ lnPre = ZeroTarget

DlIdle ==
    /\ dRetries = 0 /\ dI = 0 /\ dpc = "idle" /\ dLastErr = "nil"
    /\ dFile = "none" /\ dAttempts = 0 /\ dFrom = "unstarted" /\ dRet = "none"

PassIdle ==
    /\ pNow = 0 /\ pTimer = {} /\ pTargets = 0 /\ pRunning = <<>>
    /\ pWrites = 0 /\ pRegistry = <<>> /\ pLog = <<>> /\ pLast = <<>>

CfgIdle ==
    /\ revision = "none" /\ rawTargets = <<>> /\ cfgTargets = <<>>
    /\ cfgErr = FALSE /\ cpc = "idle"

SandIdle ==
    /\ sbTargets = <<>> /\ sbPath = <<>> /\ sbQuit = <<>> /\ sbFs = <<>>
    /\ sbPre = NoDir /\ sbLatest = 0 /\ sbpc = "idle" /\ sbRet = "none"
    /\ sbGame = "none" /\ sbCancelled = FALSE /\ sbIdx = 0
    /\ sbCreated = FALSE /\ sbCleanup = "none" /\ sbLogged = FALSE
    /\ sbPopulated = FALSE /\ sbWaited = FALSE

QuitIdle ==
    /\ qMode = "none" /\ qTargets = <<>> /\ qGlobal = FALSE /\ qLatest = 0
    /\ qWork = NoDir /\ qStore = <<>> /\ qIdx = 0 /\ qpc = "idle"
    /\ qRet = "none" /\ qFailed = {}

WatchIdle ==
    /\ now = 0 /\ events = <<>> /\ debounceTimer = {} /\ passes = <<>>
    /\ watching = FALSE
    /\ wTargets = <<>> /\ lastWrite = -1 /\ tickers = <<>> /\ lastTry = <<>>
    /\ lastOk = <<>> /\ cancelled = FALSE /\ settled = FALSE /\ late = FALSE

SwapIdle ==
    /\ exe = FALSE /\ swTargets = <<>> /\ store = <<>>
    /\ real = NoDir /\ backup = NoDir /\ backupPath = "" /\ pre = NoDir
    /\ ctxDone = FALSE /\ game = "none" /\ latest = 0 /\ ret = "none"
    /\ faults = 0 /\ restore = "none"

SyncIdle ==
    /\ sSrcKind = Local /\ sDstKind = Local
    /\ sSrc = NoDir /\ sDst = NoDir
    /\ sLast = NoRun
    /\ sPrev = NoRun

SyncInit ==
    /\ sSrcKind \in SyncType /\ sDstKind \in SyncType
    /\ sSrc \in SrcTrees \cup {NoDir}
    /\ sDst \in DstTrees \cup {NoDir}
    /\ sLast = NoRun
    /\ sPrev = NoRun

\* One run of an operation: its outcome o becomes the destination, and the
\* run is recorded with the destination before it. The source is unchanged.
Ran(op, o) ==
    /\ sDst' = o.dst
    /\ sLast' = [op |-> op, err |-> o.err, before |-> sDst]
    /\ sPrev' = sLast
    /\ UNCHANGED <<sSrcKind, sDstKind, sSrc>>
    /\ UNCHANGED <<resolveVars, lockVars, swapVars, watchVars, quitVars, sandVars, envVars, cfgVars, passVars, launchVars, dlVars>>

DoSync ==
    \E o \in Sync(sSrcKind, sSrc, sDstKind, sDst, FALSE) : Ran("Sync", o)

\* CopyToMaster copies the (local) instance directory out to a target.
DoCopyToMaster ==
    /\ sSrcKind = Local
    /\ \E o \in CopyToMaster(sSrc, sDstKind, sDst) : Ran("CopyToMaster", o)

\* copyFromMaster copies a target into the (local) instance directory.
DoCopyFromMaster ==
    /\ sDstKind = Local
    /\ \E o \in copyFromMaster(sSrcKind, sSrc, sDst) : Ran("copyFromMaster", o)

\* runOnlineOnlyMode syncs a cloud target down to the local save path.
DoSyncDown ==
    /\ sSrcKind = Gdrive /\ sDstKind = Local
    /\ \E o \in syncDown(sSrc, sDst) : Ran("syncDown", o)

SyncNext == DoSync \/ DoCopyToMaster \/ DoCopyFromMaster \/ DoSyncDown

InitSync == SyncInit /\ ResolveIdle /\ LockIdle /\ SwapIdle /\ WatchIdle /\ QuitIdle /\ SandIdle /\ EnvIdle /\ CfgIdle /\ PassIdle /\ LaunchIdle /\ DlIdle

SpecSync == InitSync /\ [][SyncNext]_vars

\* C9: a successful Sync from a local source to a local destination leaves
\* the destination equal to the source (so no file that was only in the
\* destination is left), and a second successful Sync with the source
\* unchanged leaves the destination as the first one left it.
C9_LocalSyncMirrorIdempotent ==
    (sLast.op = "Sync" /\ ~sLast.err /\ sSrcKind = Local /\ sDstKind = Local)
    => /\ sDst = sSrc
       /\ \A f \in Present(sLast.before) \ Present(sSrc) : f \notin Present(sDst)
       /\ (sPrev.op = "Sync" /\ ~sPrev.err) => sDst = sLast.before

\* Two successful local Syncs in a row, the first of which met a destination
\* holding a file the source does not have and a file with other content.
C9_Witness ==
    /\ sLast.op = "Sync" /\ ~sLast.err /\ sPrev.op = "Sync" /\ ~sPrev.err
    /\ sSrcKind = Local /\ sDstKind = Local
    /\ sSrc.files[1] = "s" /\ sSrc.files[2] = Absent
    /\ sPrev.before.exists
    /\ sPrev.before.files[1] = "d" /\ sPrev.before.files[2] = "d"
    /\ sDst = sSrc /\ sLast.before = sSrc

\* C10: a synchronization with a remote source or destination removes no
\* file that exists only at the destination, whichever operation runs it.
C10_RemoteNeverRemoves ==
    (sLast.op # "none" /\ (sSrcKind = Gdrive \/ sDstKind = Gdrive))
    => \A f \in Present(sLast.before) \ Present(sSrc) : f \in Present(sDst)

\* ================================================================ SpecResolve
\* The registries: every sequence of one to MaxTargets targets (with no
\* target LaunchGame starts the process directly and resolves nothing).
Registries == UNION { [1..n -> Targets] : n \in 1..MaxTargets }

\* LaunchGame runs runIsolatedMode when some target is not a cloud target.
ResolveInit ==
    /\ rTargets \in Registries
    /\ rMode \in {"swap", "isolated"}
    /\ rMode = "isolated" => \E i \in DOMAIN rTargets : rTargets[i].type # Gdrive
    /\ rpc = "loop" /\ rIdx = 1
    /\ rLatest = 0 /\ rLatestTime = ZeroTime /\ rFound = FALSE
    /\ rRet = "none" /\ rWork = NoDir /\ rLaunched = FALSE

\* One iteration of the loop over cfg.SyncTargets (findLatestSource,
\* launcher.go 181-200; runIsolatedMode, 356-375).
ResolveStep ==
    /\ rpc = "loop" /\ rIdx <= Len(rTargets)
    /\ LET r == LatestAfter(rTargets, rIdx, FALSE)
       IN  /\ rLatest' = r.latest
           /\ rLatestTime' = r.time
           /\ rFound' = r.found
    /\ rIdx' = rIdx + 1
    /\ UNCHANGED <<rTargets, rMode, rpc, rRet, rWork, rLaunched>>
    /\ UNCHANGED <<syncVars, lockVars, swapVars, watchVars, quitVars, sandVars, envVars, cfgVars, passVars, launchVars, dlVars>>

\* After the loop: findLatestSource returns an error when nothing was found
\* and LaunchGame returns it; runIsolatedMode goes on with what it has.
ResolveEnd ==
    /\ rpc = "loop" /\ rIdx > Len(rTargets)
    /\ IF rMode = "swap"
       THEN IF ~rFound THEN rpc' = "done" /\ rRet' = "err_resolve"
            ELSE rpc' = "populate" /\ rRet' = rRet
       ELSE rpc' = "setup" /\ rRet' = rRet
    /\ UNCHANGED <<rTargets, rMode, rIdx, rLatest, rLatestTime, rFound, rWork,
                   rLaunched>>
    /\ UNCHANGED <<syncVars, lockVars, swapVars, watchVars, quitVars, sandVars, envVars, cfgVars, passVars, launchVars, dlVars>>

\* latestSourceTarget: the target found, or the zero value.
LatestTarget == IF rLatest = 0 THEN ZeroTarget ELSE rTargets[rLatest]

\* LaunchGame, step 4: populate the real save directory from the source.
Populate ==
    /\ rpc = "populate"
    /\ \E o \in Sync(LatestTarget.type, DirOf(LatestTarget), Local, rWork, FALSE) :
          /\ rWork' = o.dst
          /\ IF o.err THEN rpc' = "done" /\ rRet' = "err_populate"
             ELSE rpc' = "launch" /\ rRet' = rRet
    /\ UNCHANGED <<rTargets, rMode, rIdx, rLatest, rLatestTime, rFound,
                   rLaunched>>
    /\ UNCHANGED <<syncVars, lockVars, swapVars, watchVars, quitVars, sandVars, envVars, cfgVars, passVars, launchVars, dlVars>>

\* setupInstanceEnvironment: create the instance save directory and fill it
\* with copyFromMaster; on an error the instance root is removed.
SetupInstance ==
    /\ rpc = "setup"
    /\ \E o \in { Outcome(TRUE, NoDir) } \cup
                copyFromMaster(LatestTarget.type, DirOf(LatestTarget), EmptyDir) :
          IF o.err THEN rWork' = NoDir /\ rpc' = "done" /\ rRet' = "err_setup"
          ELSE rWork' = o.dst /\ rpc' = "launch" /\ rRet' = rRet
    /\ UNCHANGED <<rTargets, rMode, rIdx, rLatest, rLatestTime, rFound,
                   rLaunched>>
    /\ UNCHANGED <<syncVars, lockVars, swapVars, watchVars, quitVars, sandVars, envVars, cfgVars, passVars, launchVars, dlVars>>

\* cmd.Start
StartGame ==
    /\ rpc = "launch"
    /\ \E failed \in BOOLEAN :
          /\ rLaunched' = ~failed
          /\ rRet' = IF failed THEN "err_start" ELSE "ok"
    /\ rpc' = "done"
    /\ UNCHANGED <<rTargets, rMode, rIdx, rLatest, rLatestTime, rFound, rWork>>
    /\ UNCHANGED <<syncVars, lockVars, swapVars, watchVars, quitVars, sandVars, envVars, cfgVars, passVars, launchVars, dlVars>>

ResolveNext == ResolveStep \/ ResolveEnd \/ Populate \/ SetupInstance \/ StartGame

InitResolve == ResolveInit /\ SyncIdle /\ LockIdle /\ SwapIdle /\ WatchIdle /\ QuitIdle /\ SandIdle /\ EnvIdle /\ CfgIdle /\ PassIdle /\ LaunchIdle /\ DlIdle

SpecResolve == InitResolve /\ [][ResolveNext]_vars

\* The targets whose timestamp query returns no error, and their times.
Reachable == { i \in DOMAIN rTargets : ~ModTimeOf(rTargets[i], FALSE).err }
TimeOf(i) == ModTimeOf(rTargets[i], FALSE).time
Resolved == rpc # "loop" \/ rIdx > Len(rTargets)

\* C5: when the reachable targets have pairwise distinct modification
\* times, the resolver's result is the reachable target with the greatest
\* one, wherever it stands in the registry.
C5_GreatestTimeSelected ==
    (/\ Resolved
     /\ Reachable # {}
     /\ \A i, j \in Reachable : i # j => TimeOf(i) # TimeOf(j))
    => /\ rLatest \in Reachable
       /\ \A j \in Reachable : TimeOf(j) <= TimeOf(rLatest)

\* Three reachable targets with distinct times, the newest in the middle.
C5_Witness ==
    /\ Resolved /\ Len(rTargets) = 3 /\ Reachable = {1, 2, 3}
    /\ TimeOf(2) > TimeOf(3) /\ TimeOf(3) > TimeOf(1)
    /\ rLatest = 2

\* C6: with exactly one reachable target, the resolver of either strategy
\* returns it, whatever its time and whatever its position.
C6_SingleReachableSelected ==
    (Resolved /\ Cardinality(Reachable) = 1) => rLatest \in Reachable

\* The only reachable target has the zero time and stands between two
\* unreachable ones.
C6_Witness ==
    /\ Resolved /\ Len(rTargets) = 3 /\ Reachable = {2}
    /\ TimeOf(2) = ZeroTime /\ rLatest = 2 /\ rMode = "isolated"

\* C7: when no target is reachable, the run of either strategy returns an
\* error, no working location is set up and the managed process is not
\* started.
C7_NoReachableFails ==
    (rpc = "done" /\ Reachable = {})
    => (rRet \notin {"none", "ok"} /\ ~rLaunched /\ ~rWork.exists)

\* =================================================================== SpecLock
\* A step of process p on the lock file or a change of its liveness disturbs
\* every other process.
Disturb(p) == alone' = [q \in Procs |-> IF q = p THEN alone[q] ELSE FALSE]

\* The liveness probe that finds no process.
Running_never(pid) == FALSE

\* os.FindProcess(pid) and process.Signal(syscall.Signal(0)) both return nil:
\* the process with this id is running.
Running(pid) == pid \in Procs /\ alive[pid]

\* acquireLock, util.PathExists(lockFilePath): the entry of the call.
AcqExists(p) ==
    /\ pc[p] = "acquire"
    /\ pc' = [pc EXCEPT ![p] = IF lock.exists THEN "a_read" ELSE "a_write"]
    /\ seen' = [seen EXCEPT ![p] = lock]
    /\ alone' = [alone EXCEPT ![p] = TRUE]
    /\ UNCHANGED <<lock, alive, pidRead, lret, defers>>
    /\ UNCHANGED otherVars

\* os.ReadFile and strconv.Atoi: a file that cannot be read or parsed is
\* taken as stale.
AcqRead(p) ==
    /\ pc[p] = "a_read"
    /\ IF lock.exists /\ lock.parses
       THEN /\ pidRead' = [pidRead EXCEPT ![p] = lock.pid]
            /\ pc' = [pc EXCEPT ![p] = "a_probe"]
       ELSE /\ pidRead' = pidRead
            /\ pc' = [pc EXCEPT ![p] = "a_remove"]
    /\ UNCHANGED <<lock, alive, lret, defers, seen, alone>>
    /\ UNCHANGED otherVars

\* The probe of the process named by the lock file: a running process makes
\* acquireLock return an error, and LaunchGame returns it.
AcqProbe(p) ==
    /\ pc[p] = "a_probe"
    /\ IF Running(pidRead[p])
       THEN /\ lret' = [lret EXCEPT ![p] = "contention"]
            /\ pc' = [pc EXCEPT ![p] = "done"]
       ELSE /\ lret' = lret
            /\ pc' = [pc EXCEPT ![p] = "a_remove"]
    /\ pidRead' = [pidRead EXCEPT ![p] = 0]
    /\ UNCHANGED <<lock, alive, defers, seen, alone>>
    /\ UNCHANGED otherVars

\* os.Remove of the stale lock file; it fails when the file is gone, and it
\* may fail with the file left in place.
AcqRemove(p) ==
    /\ pc[p] = "a_remove"
    /\ \E removed \in BOOLEAN :
        IF lock.exists /\ removed
        THEN /\ lock' = NoLock
             /\ lret' = lret
             /\ pc' = [pc EXCEPT ![p] = "a_write"]
        ELSE /\ lock' = lock
             /\ lret' = [lret EXCEPT ![p] = "remove_failed"]
             /\ pc' = [pc EXCEPT ![p] = "done"]
    /\ Disturb(p)
    /\ UNCHANGED <<alive, pidRead, defers, seen>>
    /\ UNCHANGED otherVars

\* os.WriteFile of the own pid; LaunchGame then defers releaseLock. The call
\* may fail before it opens the file, which stays as it is, or after it has
\* created or truncated it, which leaves a file that holds no pid.
AcqWrite(p) ==
    /\ pc[p] = "a_write"
    /\ \/ /\ lock' = LockOf(p)
          /\ lret' = [lret EXCEPT ![p] = "ok"]
          /\ defers' = [defers EXCEPT ![p] = <<"releaseLock">>]
          /\ pc' = [pc EXCEPT ![p] = "held"]
       \/ /\ lock' \in {lock, Garbage}
          /\ lret' = [lret EXCEPT ![p] = "write_failed"]
          /\ defers' = defers
          /\ pc' = [pc EXCEPT ![p] = "done"]
    /\ Disturb(p)
    /\ UNCHANGED <<alive, pidRead, seen>>
    /\ UNCHANGED otherVars

\* backupRealSaves returns a backup path: the real save directory existed and
\* has been moved away, and restoreRealSaves is deferred.
BackupSaves(p) ==
    /\ pc[p] = "held"
    /\ pc' = [pc EXCEPT ![p] = "swapped"]
    /\ Disturb(p)
    /\ UNCHANGED <<lock, alive, pidRead, lret, defers, seen>>
    /\ UNCHANGED otherVars

\* The session between acquireLock and the return of LaunchGame (the swap
\* itself, which SpecSwap spells out), up to the end of the deferred
\* restoreRealSaves; without a real save directory no backup is taken.
SessionBody(p) ==
    /\ pc[p] \in {"held", "swapped"}
    /\ pc' = [pc EXCEPT ![p] = "return"]
    /\ Disturb(p)
    /\ UNCHANGED <<lock, alive, pidRead, lret, defers, seen>>
    /\ UNCHANGED otherVars

\* The return of LaunchGame runs the deferred calls, the last deferred first.
Return(p) ==
    /\ pc[p] = "return"
    /\ IF defers[p] = <<>>
       THEN pc' = [pc EXCEPT ![p] = "done"] /\ defers' = defers
       ELSE /\ pc' = [pc EXCEPT ![p] = Head(defers[p])]
            /\ defers' = [defers EXCEPT ![p] = Tail(defers[p])]
    /\ UNCHANGED <<lock, alive, pidRead, lret, seen, alone>>
    /\ UNCHANGED otherVars

\* A releaseLock that leaves the lock file where it is.
releaseLock_keep(p) ==
    /\ pc[p] = "releaseLock"
    /\ pc' = [pc EXCEPT ![p] = "return"]
    /\ UNCHANGED <<lock, alive, pidRead, lret, defers, seen, alone>>
    /\ UNCHANGED otherVars

\* releaseLock: os.Remove(lockFilePath); a failure is logged.
releaseLock(p) ==
    /\ pc[p] = "releaseLock"
    /\ lock' = NoLock
    /\ pc' = [pc EXCEPT ![p] = "return"]
    /\ Disturb(p)
    /\ UNCHANGED <<alive, pidRead, lret, defers, seen>>
    /\ UNCHANGED otherVars

\* A launcher that holds the lock is killed: nothing deferred runs and the
\* lock file stays.
Crash(p) ==
    /\ pc[p] \in {"held", "swapped"}
    /\ alive' = [alive EXCEPT ![p] = FALSE]
    /\ pc' = [pc EXCEPT ![p] = "dead"]
    /\ Disturb(p)
    /\ UNCHANGED <<lock, pidRead, lret, defers, seen>>
    /\ UNCHANGED otherVars

\* Some launchers are started; the others ran earlier and are dead, and one
\* of them may have left its lock file.
LockInit ==
    /\ alive \in [Procs -> BOOLEAN]
    /\ pc = [p \in Procs |-> IF alive[p] THEN "acquire" ELSE "dead"]
    /\ lock \in {NoLock, Garbage} \cup { LockOf(p) : p \in {q \in Procs : ~alive[q]} }
    /\ pidRead = [p \in Procs |-> 0]
    /\ lret = [p \in Procs |-> "none"]
    /\ defers = [p \in Procs |-> <<>>]
    /\ seen = [p \in Procs |-> NoLock]
    /\ alone = [p \in Procs |-> TRUE]

LockNext ==
    \/ \E p \in Procs : AcqExists(p)
    \/ \E p \in Procs : AcqRead(p)
    \/ \E p \in Procs : AcqProbe(p)
    \/ \E p \in Procs : AcqRemove(p)
    \/ \E p \in Procs : AcqWrite(p)
    \/ \E p \in Procs : BackupSaves(p)
    \/ \E p \in Procs : SessionBody(p)
    \/ \E p \in Procs : Return(p)
    \/ \E p \in Procs : releaseLock(p)
    \/ \E p \in Procs : Crash(p)

InitLock == LockInit /\ SyncIdle /\ ResolveIdle /\ SwapIdle /\ WatchIdle /\ QuitIdle /\ SandIdle /\ EnvIdle /\ CfgIdle /\ PassIdle /\ LaunchIdle /\ DlIdle

SpecLock == InitLock /\ [][LockNext]_vars

\* C3: no two live launcher processes hold the lock (have returned from
\* acquireLock with success and not yet from LaunchGame) at the same time.
C3_AtMostOneSession ==
    \A p, q \in Procs :
        (p # q /\ alive[p] /\ alive[q] /\ lret[p] = "ok" /\ lret[q] = "ok")
        => ~(pc[p] = "held" /\ pc[q] = "held")

Self == 1
Other == 2

\* The outcomes a fallible call may still take: once MaxFaults operations
\* have failed, a call that can succeed does.
Allowed(S) ==
    IF faults < MaxFaults \/ ~(\E o \in S : ~o.err) THEN S
    ELSE { o \in S : ~o.err }
Faulty(S, o) == o.err /\ \E x \in S : ~x.err
Count(S, o) == faults' = IF Faulty(S, o) THEN faults + 1 ELSE faults
\* The two outcomes of a call that leaves no directory behind when it fails
\* (os.MkdirTemp, cmd.Start).
Plain(d) == { Outcome(FALSE, d), Outcome(TRUE, NoDir) }

Goto(l) == pc' = [pc EXCEPT ![Self] = l]
\* LaunchGame returns err: the deferred calls run next.
Fail(e) == ret' = e /\ Goto("return")
lockRest == <<lock, alive, pidRead, lret, seen, alone>>

\* The registries of a swap session: one or two targets, each a present
\* directory (written at the zero time or at MaxTime) or one whose query
\* fails.
SwapTargets ==
    { t \in Targets : t.status # "absent" /\ t.mtime \in {ZeroTime, MaxTime} }
SwapRegistries ==
    { <<a>> : a \in SwapTargets } \cup { <<a, b>> : a, b \in SwapTargets }
\* The real save directory of the user before the session.
UserTrees == { Dir(t) : t \in [Files -> {"u", Absent}] }

\* LaunchGame up to acquireLock: the executable must exist.
CheckExe ==
    /\ pc[Self] = "launch"
    /\ IF exe THEN Goto("acquire") /\ ret' = ret
       ELSE Fail("err_exe")
    /\ UNCHANGED <<lockRest, defers, syncVars, resolveVars, watchVars, quitVars, sandVars, envVars, cfgVars, passVars, launchVars, dlVars>>
    /\ UNCHANGED <<exe, swTargets, store, real, backup, backupPath, pre,
                   ctxDone, game, latest, faults, restore>>

\* backupRealSaves, util.PathExists(realSavePath): without a real save
\* directory there is nothing to back up and the path returned is "".
BackupCheck ==
    /\ pc[Self] = "held"
    /\ IF PathExists(real)
       THEN Goto("b_mkdtemp") /\ defers' = defers
       ELSE /\ Goto("resolve")
            /\ defers' = [defers EXCEPT ![Self] = <<"restoreRealSaves">> \o @]
    /\ seen' = [seen EXCEPT ![Self] = NoLock]
    /\ UNCHANGED <<lock, alive, pidRead, lret, alone, syncVars, resolveVars, watchVars, quitVars, sandVars, envVars, cfgVars, passVars, launchVars, dlVars>>
    /\ UNCHANGED swapVars

\* backupRealSaves, os.MkdirTemp.
BackupMkdirTemp ==
    /\ pc[Self] = "b_mkdtemp"
    /\ \E o \in Allowed(Plain(EmptyDir)) :
        /\ Count(Plain(EmptyDir), o)
        /\ backup' = o.dst
        /\ IF o.err THEN Fail("err_backup") ELSE Goto("b_copy") /\ ret' = ret
    /\ UNCHANGED <<lockRest, defers, syncVars, resolveVars, watchVars, quitVars, sandVars, envVars, cfgVars, passVars, launchVars, dlVars>>
    /\ UNCHANGED <<exe, swTargets, store, real, backupPath, pre, ctxDone,
                   game, latest, restore>>

\* backupRealSaves, util.CopyDir(realSavePath, backupPath).
BackupCopy ==
    /\ pc[Self] = "b_copy"
    /\ \E o \in Allowed(CopyDir(real, backup)) :
        /\ Count(CopyDir(real, backup), o)
        /\ backup' = o.dst
        /\ IF o.err THEN Fail("err_backup") ELSE Goto("b_remove") /\ ret' = ret
    /\ UNCHANGED <<lockRest, defers, syncVars, resolveVars, watchVars, quitVars, sandVars, envVars, cfgVars, passVars, launchVars, dlVars>>
    /\ UNCHANGED <<exe, swTargets, store, real, backupPath, pre, ctxDone,
                   game, latest, restore>>

\* The defer of restoreRealSaves(backupPath, realSavePath) in LaunchGame.
DeferRestore_skip(ds) == ds
DeferRestore(ds) == <<"restoreRealSaves">> \o ds

\* backupRealSaves, os.RemoveAll(realSavePath); on success the backup path
\* is returned and LaunchGame defers restoreRealSaves.
BackupRemove ==
    /\ pc[Self] = "b_remove"
    /\ \E o \in Allowed(RemoveAll(real)) :
        /\ Count(RemoveAll(real), o)
        /\ real' = o.dst
        /\ IF o.err
           THEN Fail("err_backup") /\ UNCHANGED <<backupPath, defers>>
           ELSE /\ Goto("resolve") /\ ret' = ret
                /\ backupPath' = "tmp"
                /\ defers' = [defers EXCEPT ![Self] = DeferRestore(@)]
    /\ UNCHANGED <<lockRest, syncVars, resolveVars, watchVars, quitVars, sandVars, envVars, cfgVars, passVars, launchVars, dlVars>>
    /\ UNCHANGED <<exe, swTargets, store, backup, pre, ctxDone, game, latest,
                   restore>>

\* findLatestSource(ctx, cfg).
SwapResolve ==
    /\ pc[Self] = "resolve"
    /\ LET r == findLatestSource(swTargets, ctxDone)
       IN  IF r.err THEN Fail("err_resolve") /\ latest' = latest
           ELSE Goto("swapin") /\ latest' = r.latest /\ ret' = ret
    /\ UNCHANGED <<lockRest, defers, syncVars, resolveVars, watchVars, quitVars, sandVars, envVars, cfgVars, passVars, launchVars, dlVars>>
    /\ UNCHANGED <<exe, swTargets, store, real, backup, backupPath, pre,
                   ctxDone, game, faults, restore>>

\* Swap in: backup.Sync(ctx, cfg, latestSourceTarget, realSaveTarget).
SwapIn ==
    /\ pc[Self] = "swapin"
    /\ LET S == Sync(swTargets[latest].type, store[latest], Local, real, ctxDone)
       IN  \E o \in Allowed(S) :
            /\ Count(S, o)
            /\ real' = o.dst
            /\ IF o.err THEN Fail("err_populate")
               ELSE Goto("start") /\ ret' = ret
    /\ UNCHANGED <<lockRest, defers, syncVars, resolveVars, watchVars, quitVars, sandVars, envVars, cfgVars, passVars, launchVars, dlVars>>
    /\ UNCHANGED <<exe, swTargets, store, backup, backupPath, pre, ctxDone,
                   game, latest, restore>>

\* exec.CommandContext(ctx, hollowKnightExe) and cmd.Start(): a command whose
\* context is done is not started.
SwapStart ==
    /\ pc[Self] = "start"
    /\ LET S == IF ctxDone THEN { Outcome(TRUE, NoDir) } ELSE Plain(NoDir)
       IN  \E o \in Allowed(S) :
            /\ Count(S, o)
            /\ IF o.err THEN Fail("err_start") /\ game' = game
               ELSE Goto("wait") /\ game' = "running" /\ ret' = ret
    /\ UNCHANGED <<lockRest, defers, syncVars, resolveVars, watchVars, quitVars, sandVars, envVars, cfgVars, passVars, launchVars, dlVars>>
    /\ UNCHANGED <<exe, swTargets, store, real, backup, backupPath, pre,
                   ctxDone, latest, restore>>

\* The game writes a save file.
GameWrite ==
    /\ game = "running"
    /\ \E f \in Files : real' = Dir([real.files EXCEPT ![f] = "g"])
    /\ real' # real
    /\ UNCHANGED <<lockVars, syncVars, resolveVars, watchVars, quitVars, sandVars, envVars, cfgVars, passVars, launchVars, dlVars>>
    /\ UNCHANGED <<exe, swTargets, store, backup, backupPath, pre, ctxDone,
                   game, latest, ret, faults, restore>>

\* The player quits the game.
GameExit ==
    /\ game = "running"
    /\ game' = "exited"
    /\ UNCHANGED <<lockVars, syncVars, resolveVars, watchVars, quitVars, sandVars, envVars, cfgVars, passVars, launchVars, dlVars>>
    /\ UNCHANGED <<exe, swTargets, store, real, backup, backupPath, pre,
                   ctxDone, latest, ret, faults, restore>>

\* os.Interrupt: signal.NotifyContext in main cancels the context, and the
\* command started with that context kills the game.
Interrupt ==
    /\ ~ctxDone
    /\ pc[Self] \notin {"launch", "done"}
    /\ ctxDone' = TRUE
    /\ game' = IF game = "running" THEN "killed" ELSE game
    /\ UNCHANGED <<lockVars, syncVars, resolveVars, watchVars, quitVars, sandVars, envVars, cfgVars, passVars, launchVars, dlVars>>
    /\ UNCHANGED <<exe, swTargets, store, real, backup, backupPath, pre,
                   latest, ret, faults, restore>>

\* A terminate signal arrives while the game runs. main registers os.Interrupt
\* only, so the Go runtime's default disposition ends the launcher at once:
\* nothing deferred runs, the context is not cancelled and the game, a child
\* process that did not get the signal, keeps running.
Terminate ==
    /\ pc[Self] = "wait" /\ game = "running"
    /\ alive' = [alive EXCEPT ![Self] = FALSE]
    /\ pc' = [pc EXCEPT ![Self] = "dead"]
    /\ UNCHANGED <<lock, pidRead, lret, defers, seen, alone>>
    /\ UNCHANGED <<syncVars, resolveVars, watchVars, quitVars, swapVars, sandVars, envVars, cfgVars, passVars, launchVars, dlVars>>

\* A wait that returns while the process still runs.
Wait_early(process) == TRUE

\* cmd.Wait() returns once the process has ended.
Wait(process) == process \in {"exited", "killed"}

\* cmd.Wait() returns once the game has ended.
SwapWait ==
    /\ pc[Self] = "wait"
    /\ Wait(game)
    /\ Goto("swapout")
    /\ UNCHANGED <<lockRest, defers, syncVars, resolveVars, watchVars, quitVars, sandVars, envVars, cfgVars, passVars, launchVars, dlVars>>
    /\ UNCHANGED swapVars

\* Swap out: backup.Sync(ctx, cfg, realSaveTarget, latestSourceTarget), and
\* the return of its error or of nil.
SwapOut ==
    /\ pc[Self] = "swapout"
    /\ LET S == Sync(Local, real, swTargets[latest].type, store[latest], ctxDone)
       IN  \E o \in Allowed(S) :
            /\ Count(S, o)
            /\ store' = [store EXCEPT ![latest] = o.dst]
            /\ Fail(IF o.err THEN "err_swapout" ELSE "ok")
    /\ UNCHANGED <<lockRest, defers, syncVars, resolveVars, watchVars, quitVars, sandVars, envVars, cfgVars, passVars, launchVars, dlVars>>
    /\ UNCHANGED <<exe, swTargets, real, backup, backupPath, pre, ctxDone,
                   game, latest, restore>>

\* restoreRealSaves: nothing to do when no backup was taken.
RestoreCheck ==
    /\ pc[Self] = "restoreRealSaves"
    /\ IF backupPath = "" THEN Goto("return") ELSE Goto("r_remove")
    /\ UNCHANGED <<lockRest, defers, syncVars, resolveVars, watchVars, quitVars, sandVars, envVars, cfgVars, passVars, launchVars, dlVars>>
    /\ UNCHANGED swapVars

\* restoreRealSaves, _ = os.RemoveAll(realSavePath): the error is dropped.
RestoreRemove ==
    /\ pc[Self] = "r_remove"
    /\ \E o \in Allowed(RemoveAll(real)) :
        /\ Count(RemoveAll(real), o)
        /\ real' = o.dst
        /\ restore' = IF o.err THEN "failed" ELSE "ok"
    /\ Goto("r_copy")
    /\ UNCHANGED <<lockRest, defers, syncVars, resolveVars, watchVars, quitVars, sandVars, envVars, cfgVars, passVars, launchVars, dlVars>>
    /\ UNCHANGED <<exe, swTargets, store, backup, backupPath, pre, ctxDone,
                   game, latest, ret>>

\* restoreRealSaves, util.CopyDir(backupPath, realSavePath): an error is
\* logged as CRITICAL and the function goes on.
RestoreCopy ==
    /\ pc[Self] = "r_copy"
    /\ \E o \in Allowed(CopyDir(backup, real)) :
        /\ Count(CopyDir(backup, real), o)
        /\ real' = o.dst
        /\ restore' = IF o.err THEN "failed" ELSE restore
    /\ Goto("r_cleanup")
    /\ UNCHANGED <<lockRest, defers, syncVars, resolveVars, watchVars, quitVars, sandVars, envVars, cfgVars, passVars, launchVars, dlVars>>
    /\ UNCHANGED <<exe, swTargets, store, backup, backupPath, pre, ctxDone,
                   game, latest, ret>>

\* restoreRealSaves, _ = os.RemoveAll(backupPath).
RestoreCleanup ==
    /\ pc[Self] = "r_cleanup"
    /\ \E o \in Allowed(RemoveAll(backup)) :
        /\ Count(RemoveAll(backup), o)
        /\ backup' = o.dst
    /\ Goto("return")
    /\ UNCHANGED <<lockRest, defers, syncVars, resolveVars, watchVars, quitVars, sandVars, envVars, cfgVars, passVars, launchVars, dlVars>>
    /\ UNCHANGED <<exe, swTargets, store, real, backupPath, pre, ctxDone,
                   game, latest, ret, restore>>

\* A session starts: the user's saves are in the real save directory, and
\* the launcher that ran before holds the lock, or is dead and has left its
\* lock file, a damaged one or none.
SwapInit ==
    /\ exe \in BOOLEAN
    /\ swTargets \in SwapRegistries
    /\ store = [i \in DOMAIN swTargets |-> DirOf(swTargets[i])]
    /\ pre \in {NoDir} \cup UserTrees
    /\ real = pre /\ backup = NoDir /\ backupPath = ""
    /\ ctxDone = FALSE /\ game = "none" /\ latest = 0 /\ ret = "none"
    /\ faults = 0 /\ restore = "none"
    /\ alive \in { [p \in Procs |-> p = Self \/ (p = Other /\ b)] : b \in BOOLEAN }
    /\ pc = [p \in Procs |-> IF p = Self THEN "launch"
                             ELSE IF alive[p] THEN "held" ELSE "dead"]
    /\ lock \in IF Other \in Procs /\ alive[Other] THEN { LockOf(Other) }
                ELSE { NoLock, Garbage, LockOf(Other) }
    /\ pidRead = [p \in Procs |-> 0]
    /\ lret = [p \in Procs |-> IF alive[p] /\ p # Self THEN "ok" ELSE "none"]
    /\ defers = [p \in Procs |-> IF alive[p] /\ p # Self THEN <<"releaseLock">>
                                 ELSE <<>>]
    /\ seen = [p \in Procs |-> NoLock]
    /\ alone = [p \in Procs |-> TRUE]

SwapNext ==
    \/ CheckExe
    \/ AcqExists(Self) \/ AcqRead(Self) \/ AcqProbe(Self) \/ AcqRemove(Self)
    \/ AcqWrite(Self)
    \/ BackupCheck \/ BackupMkdirTemp \/ BackupCopy \/ BackupRemove
    \/ SwapResolve \/ SwapIn \/ SwapStart
    \/ GameWrite \/ GameExit \/ Interrupt \/ Terminate
    \/ SwapWait \/ SwapOut
    \/ Return(Self)
    \/ RestoreCheck \/ RestoreRemove \/ RestoreCopy \/ RestoreCleanup
    \/ releaseLock(Self)

InitSwap == SwapInit /\ SyncIdle /\ ResolveIdle /\ WatchIdle /\ QuitIdle /\ SandIdle /\ EnvIdle /\ CfgIdle /\ PassIdle /\ LaunchIdle /\ DlIdle

SpecSwap == InitSwap /\ [][SwapNext]_vars

\* The directory holds every file of the user's pre-session saves with its
\* pre-session content.
HoldsPre(d) == \A f \in Present(pre) : d.files[f] = pre.files[f]

\* C1: at every point of a swap session a complete copy of the pre-session
\* real save data is in the real save directory or in the backup directory.
C1_PreSessionCopyExists == HoldsPre(real) \/ HoldsPre(backup)

debounceDuration == 2

\* A handler that leaves the running timer alone.
Stop_keep(timers) == timers

\* debounceTimer.Stop() under mu: the running timer will not fire.
Stop(timers) == {}

\* StartBackgroundSync: backupTargets := cfg.SyncTargets[1:], and of these
\* the targets with a positive Interval are periodic, those with Interval 0
\* are watcher targets.
backupTargets(targets) == { i \in DOMAIN targets : i > 1 }
periodicTargets(targets) == { i \in backupTargets(targets) : targets[i] > 0 }
watcherTargets(targets) == { i \in backupTargets(targets) : targets[i] = 0 }

\* A scheduler that gives up after a failed sync.
Continue_stop(err) == ~err

\* Both the ticker loop and the loop of a watcher pass log the error of a
\* sync and go on.
Continue(err) == TRUE

\* The targets a pass over the set W tries when the syncs to F fail: the
\* loop runs in registry order for as long as it goes on.
Tried(W, F) == { i \in W : \A j \in W \cap F : j < i => Continue(TRUE) }

\* The handler goroutine receives a write event from watcher.Events: it
\* stops the timer and starts a new one with time.AfterFunc.
WriteEvent ==
    /\ watching
    /\ Len(events) < MaxWrites
    /\ events' = Append(events, now)
    /\ lastWrite' = now
    /\ debounceTimer' = Stop(debounceTimer) \cup {now + debounceDuration}
    /\ UNCHANGED <<now, passes, watching>>
    /\ UNCHANGED <<wTargets, tickers, lastTry, lastOk, cancelled, settled, late>>
    /\ UNCHANGED <<syncVars, resolveVars, lockVars, swapVars, quitVars, sandVars, envVars, cfgVars, passVars, launchVars, dlVars>>

\* The game writes to the directory while no watcher handles its events.
WriteUnwatched ==
    /\ ~watching /\ ~cancelled
    /\ lastWrite < now
    /\ lastWrite' = now
    /\ UNCHANGED <<now, events, debounceTimer, passes, watching>>
    /\ UNCHANGED <<wTargets, tickers, lastTry, lastOk, cancelled, settled, late>>
    /\ UNCHANGED <<syncVars, resolveVars, lockVars, swapVars, quitVars, sandVars, envVars, cfgVars, passVars, launchVars, dlVars>>

\* A timer that has reached its deadline runs its function: a pass that
\* syncs the watched directory to every watcher target, each sync failing
\* or not.
TimerFires ==
    /\ \E d \in debounceTimer :
        /\ d <= now
        /\ debounceTimer' = debounceTimer \ {d}
    /\ passes' = Append(passes, [start |-> now, last |-> events[Len(events)]])
    /\ \E F \in SUBSET watcherTargets(wTargets) :
        LET T == Tried(watcherTargets(wTargets), F)
        IN  /\ lastTry' = [i \in DOMAIN wTargets |->
                              IF i \in T THEN now ELSE lastTry[i]]
            /\ lastOk' = [i \in DOMAIN wTargets |->
                             IF i \in T \ F THEN now ELSE lastOk[i]]
    /\ late' = (late \/ settled)
    /\ UNCHANGED <<now, events, watching>>
    /\ UNCHANGED <<wTargets, lastWrite, tickers, cancelled, settled>>
    /\ UNCHANGED <<syncVars, resolveVars, lockVars, swapVars, quitVars, sandVars, envVars, cfgVars, passVars, launchVars, dlVars>>

\* case <-ticker.C of a periodic goroutine: one sync to its target, failing
\* or not, and the ticker runs on.
TickerFires ==
    /\ \E i \in DOMAIN wTargets, err \in BOOLEAN :
        /\ tickers[i] >= 0 /\ tickers[i] <= now
        /\ lastTry' = [lastTry EXCEPT ![i] = now]
        /\ lastOk' = IF err THEN lastOk ELSE [lastOk EXCEPT ![i] = now]
        /\ tickers' = [tickers EXCEPT ![i] = IF Continue(err)
                                             THEN tickers[i] + wTargets[i]
                                             ELSE -1]
    /\ late' = (late \/ settled)
    /\ UNCHANGED <<now, events, debounceTimer, passes, watching>>
    /\ UNCHANGED <<wTargets, lastWrite, cancelled, settled>>
    /\ UNCHANGED <<syncVars, resolveVars, lockVars, swapVars, quitVars, sandVars, envVars, cfgVars, passVars, launchVars, dlVars>>

\* case <-ctx.Done() of a periodic goroutine: it stops its ticker and
\* returns.
TickerStops ==
    /\ cancelled
    /\ \E i \in DOMAIN wTargets :
        /\ tickers[i] >= 0
        /\ tickers' = [tickers EXCEPT ![i] = -1]
    /\ UNCHANGED <<now, events, debounceTimer, passes, watching>>
    /\ UNCHANGED <<wTargets, lastWrite, lastTry, lastOk, cancelled, settled, late>>
    /\ UNCHANGED <<syncVars, resolveVars, lockVars, swapVars, quitVars, sandVars, envVars, cfgVars, passVars, launchVars, dlVars>>

\* A second passes; a timer or ticker that is due fires first, and a
\* periodic goroutine whose context is done returns first.
Tick ==
    /\ now < MaxClock
    /\ \A d \in debounceTimer : d > now
    /\ \A i \in DOMAIN wTargets :
           tickers[i] >= 0 => (tickers[i] > now /\ ~cancelled)
    /\ now' = now + 1
    /\ settled' = cancelled
    /\ UNCHANGED <<events, debounceTimer, passes, watching>>
    /\ UNCHANGED <<wTargets, lastWrite, tickers, lastTry, lastOk, cancelled, late>>
    /\ UNCHANGED <<syncVars, resolveVars, lockVars, swapVars, quitVars, sandVars, envVars, cfgVars, passVars, launchVars, dlVars>>

\* ctx.Done(): the watcher is closed and the handler goroutine returns; a
\* running timer is not stopped.
WatchDone ==
    /\ ~cancelled
    /\ cancelled' = TRUE
    /\ watching' = FALSE
    /\ UNCHANGED <<now, events, debounceTimer, passes>>
    /\ UNCHANGED <<wTargets, lastWrite, tickers, lastTry, lastOk, settled, late>>
    /\ UNCHANGED <<syncVars, resolveVars, lockVars, swapVars, quitVars, sandVars, envVars, cfgVars, passVars, launchVars, dlVars>>

\* The Interval of a target: negative (the primary target of the first
\* revision of Load), 0 (watch) or positive (seconds between syncs).
Intervals == {-1, 0, MaxInterval}
\* cfg.SyncTargets: a first target and backup targets that are watched or
\* periodic.
SchedRegistries ==
    { r \in UNION { [1..n -> Intervals] : n \in 1..MaxSchedTargets } :
      \A i \in DOMAIN r : i > 1 => r[i] >= 0 }

\* StartBackgroundSync has returned: with watcher targets
\* startWatcherBackups has added the directory to the watcher and started
\* the handler, and every periodic target has its goroutine and ticker.
WatchInit ==
    /\ now = 0 /\ events = <<>> /\ debounceTimer = {} /\ passes = <<>>
    /\ wTargets \in SchedRegistries
    /\ watching = (watcherTargets(wTargets) # {})
    /\ lastWrite = -1
    /\ tickers = [i \in DOMAIN wTargets |->
                     IF i \in periodicTargets(wTargets) THEN wTargets[i] ELSE -1]
    /\ lastTry = [i \in DOMAIN wTargets |-> -1]
    /\ lastOk = [i \in DOMAIN wTargets |-> -1]
    /\ cancelled = FALSE /\ settled = FALSE /\ late = FALSE

WatchNext ==
    \/ WriteEvent \/ WriteUnwatched \/ TimerFires \/ TickerFires
    \/ TickerStops \/ Tick \/ WatchDone

InitWatch == WatchInit /\ SyncIdle /\ ResolveIdle /\ LockIdle /\ SwapIdle /\ QuitIdle /\ SandIdle /\ EnvIdle /\ CfgIdle /\ PassIdle /\ LaunchIdle /\ DlIdle

SpecWatch == InitWatch /\ [][WatchNext]_vars

\* Every write so far came less than debounceDuration after the one before.
Rapid ==
    \A i \in 2..Len(events) : events[i] - events[i - 1] < debounceDuration

\* C8: every pass begins no earlier than debounceDuration after the last
\* write before it, and N >= 1 rapid writes give no pass while the timer
\* runs and exactly one pass once it has fired.
C8_OnePassAfterDebounce ==
    /\ \A i \in DOMAIN passes :
           passes[i].start >= passes[i].last + debounceDuration
    /\ (Rapid /\ events # <<>>)
       => Len(passes) = IF debounceTimer = {} THEN 1 ELSE 0

\* MaxWrites rapid writes at more than one instant, and the one pass that
\* began debounceDuration after the last of them.
C8_Witness ==
    /\ Rapid /\ Len(events) = MaxWrites
    /\ events[1] < events[Len(events)]
    /\ debounceTimer = {}
    /\ passes = <<[start |-> events[Len(events)] + debounceDuration,
                   last |-> events[Len(events)]]>>

\* LaunchGame has just left the swap-out and nothing deferred has run yet:
\* the real save directory still is the working directory of the session.
SwappedOut ==
    /\ pc[Self] = "return" /\ ret \in {"ok", "err_swapout"}
    /\ Len(defers[Self]) = 2

\* C13: when the game was killed by an interrupt and no file operation of
\* the session failed by itself, the swap-out has succeeded and the latest
\* source target holds the files of the working directory.
C13_InterruptStillSyncsBack ==
    (SwappedOut /\ game = "killed" /\ faults = 0)
    => /\ ret = "ok"
       /\ \A f \in Present(real) : store[latest].files[f] = real.files[f]

QuitTarget(type, quit) == [type |-> type, quit |-> quit]
QuitTargets ==
    { QuitTarget(ty, q) : ty \in SyncType, q \in {"unset", "true", "false"} }
\* cfg.SyncTargets: Load sets SyncOnQuit of the first target to true.
QuitRegistries ==
    { r \in UNION { [1..n -> QuitTargets] : n \in 1..MaxQuitTargets } :
      r[1].quit = "true" }

\* The effective sync-on-quit flag: doSync := cfg.SyncOnQuit, replaced by
\* *target.SyncOnQuit when that is not nil.
doSync(global, target) ==
    IF target.quit # "unset" THEN target.quit = "true" ELSE global

\* The save files the game leaves in the working directory.
GameTree == Dir([f \in Files |-> "g"])

swapRest == <<exe, swTargets, store, real, backup, backupPath, pre, ctxDone,
              game, latest, ret, restore>>

\* The swap strategy after cmd.Wait: backup.Sync(ctx, cfg, realSaveTarget,
\* latestSourceTarget) and the return of its error or of nil.
QuitSwapOut ==
    /\ qpc = "sync" /\ qMode = "swap"
    /\ LET S == Sync(Local, qWork, qTargets[qLatest].type, qStore[qLatest], FALSE)
       IN  \E o \in Allowed(S) :
            /\ Count(S, o)
            /\ qStore' = [qStore EXCEPT ![qLatest] = o.dst]
            /\ qRet' = IF o.err THEN "err_swapout" ELSE "ok"
            /\ qFailed' = IF o.err THEN {qLatest} ELSE {}
    /\ qpc' = "done"
    /\ UNCHANGED <<qMode, qTargets, qGlobal, qLatest, qWork, qIdx>>
    /\ UNCHANGED <<syncVars, resolveVars, lockVars, swapRest, watchVars, sandVars, envVars, cfgVars, passVars, launchVars, dlVars>>

\* One round of the loop of copySavesBack (and of the same loop at the end
\* of runOnlineOnlyMode): a target whose flag is false is skipped, an error
\* of CopyToMaster is logged.
QuitCopyBack ==
    /\ qpc = "sync" /\ qMode # "swap"
    /\ qIdx <= Len(qTargets)
    /\ IF ~doSync(qGlobal, qTargets[qIdx])
       THEN UNCHANGED <<qStore, qFailed, faults>>
       ELSE LET S == CopyToMaster(qWork, qTargets[qIdx].type, qStore[qIdx])
            IN  \E o \in Allowed(S) :
                 /\ Count(S, o)
                 /\ qStore' = [qStore EXCEPT ![qIdx] = o.dst]
                 /\ qFailed' = IF o.err THEN qFailed \cup {qIdx} ELSE qFailed
    /\ qIdx' = qIdx + 1
    /\ UNCHANGED <<qMode, qTargets, qGlobal, qLatest, qWork, qpc, qRet>>
    /\ UNCHANGED <<syncVars, resolveVars, lockVars, swapRest, watchVars, sandVars, envVars, cfgVars, passVars, launchVars, dlVars>>

\* The loop has ended: runIsolatedMode and runOnlineOnlyMode return nil.
QuitReturn ==
    /\ qpc = "sync" /\ qMode # "swap"
    /\ qIdx > Len(qTargets)
    /\ qRet' = "ok"
    /\ qpc' = "done"
    /\ UNCHANGED <<qMode, qTargets, qGlobal, qLatest, qWork, qStore, qIdx,
                   qFailed>>
    /\ UNCHANGED <<syncVars, resolveVars, lockVars, swapVars, watchVars, sandVars, envVars, cfgVars, passVars, launchVars, dlVars>>

\* cmd.Wait has returned. The strategy is the swap of LaunchGame(ctx, cfg),
\* or the one LaunchGame(cfg) chooses: online-only when every target is a
\* cloud target, isolated otherwise.
QuitInit ==
    /\ qTargets \in QuitRegistries
    /\ qMode \in {"swap"} \cup
                 IF \A i \in DOMAIN qTargets : qTargets[i].type = Gdrive
                 THEN {"online"} ELSE {"isolated"}
    /\ qGlobal \in BOOLEAN
    /\ qLatest \in IF qMode = "swap" THEN DOMAIN qTargets ELSE {0}
    /\ qWork = GameTree
    /\ qStore = [i \in DOMAIN qTargets |-> TargetTree]
    /\ qIdx = 1 /\ qpc = "sync" /\ qRet = "none" /\ qFailed = {}

QuitNext == QuitSwapOut \/ QuitCopyBack \/ QuitReturn

InitQuit == QuitInit /\ SyncIdle /\ ResolveIdle /\ LockIdle /\ SwapIdle /\ WatchIdle /\ SandIdle /\ EnvIdle /\ CfgIdle /\ PassIdle /\ LaunchIdle /\ DlIdle

SpecQuit == InitQuit /\ [][QuitNext]_vars

\* The directory holds every file of the working directory with its content.
HoldsWork(d) == \A f \in Present(qWork) : d.files[f] = qWork.files[f]

\* C11: after the exit synchronization every target whose effective
\* sync-on-quit flag is true, and whose copy did not return an error, holds
\* the content of the working directory.
C11_ExitSyncReachesFlagged ==
    qpc = "done"
    => \A i \in DOMAIN qTargets :
          (doSync(qGlobal, qTargets[i]) /\ i \notin qFailed)
          => HoldsWork(qStore[i])

\* C12: with a single target in watch mode (Interval 0), while the session
\* is not cancelled, more than debounceDuration after the last write to the
\* working directory a background sync to that target has begun, no earlier
\* than debounceDuration after the write.
C12_SingleWatchEndpointSynced ==
    (/\ Len(wTargets) = 1 /\ wTargets[1] = 0
     /\ ~cancelled /\ lastWrite >= 0
     /\ now > lastWrite + debounceDuration)
    => lastTry[1] >= lastWrite + debounceDuration

\* C15: no background sync (watcher pass or periodic sync) begins at an
\* instant after the one at which the context of the session was done.
C15_NoSyncAfterCancel == ~late

\* C16: a failed background sync stops nothing. While the context is not
\* done the ticker of every periodic target stays armed for a tick that is
\* not overdue, whatever its syncs returned; every watcher pass has tried
\* every watcher target, whichever of them failed; and a target's last
\* successful sync is never later than its last try.
C16_FailedSyncStopsNothing ==
    /\ \A i \in periodicTargets(wTargets) : ~cancelled => tickers[i] >= now
    /\ passes # <<>>
       => \A i \in watcherTargets(wTargets) :
             lastTry[i] = passes[Len(passes)].start
    /\ \A i \in DOMAIN wTargets : lastOk[i] <= lastTry[i] /\ lastTry[i] <= now

\* A watcher pass in which the sync to one target failed and the sync to a
\* later target succeeded.
C16_Witness ==
    \E i, j \in watcherTargets(wTargets) :
        /\ i < j /\ passes # <<>>
        /\ lastTry[i] = passes[Len(passes)].start /\ lastOk[i] < lastTry[i]
        /\ lastTry[j] = passes[Len(passes)].start /\ lastOk[j] = lastTry[j]

\* C17: a signal received while the game runs ends the game and cancels the
\* context, and the launcher lives on to run its teardown: once the context
\* is done no game is left running under a waiting launcher, the launcher is
\* never ended before LaunchGame has returned, and when it has returned after
\* a signal the restore has run and the lock file is gone.
C17_SignalStillTearsDown ==
    /\ alive[Self]
    /\ (ctxDone /\ pc[Self] = "wait") => game # "running"
    /\ (pc[Self] = "done" /\ ctxDone /\ lret[Self] = "ok")
       => /\ ~lock.exists
          /\ backupPath # "" => restore # "none"

\* C18: when acquireLock has failed and LaunchGame has returned its error,
\* the real save directory and every target are as they were before the
\* session, no backup was made, and a lock file that acquireLock met at its
\* entry is still there with the content it had.
C18_LockFailureMutatesNothing ==
    (pc[Self] = "done" /\ lret[Self] \notin {"none", "ok"})
    => /\ real = pre
       /\ store = [i \in DOMAIN swTargets |-> DirOf(swTargets[i])]
       /\ backup = NoDir /\ backupPath = ""
       /\ seen[Self].exists => lock = seen[Self]

\* C19: when LaunchGame has returned the error of a preparation step (the
\* backup, the resolution of the source or the populate), the real save
\* directory holds its pre-session content, unless a file operation of
\* restoreRealSaves itself failed.
C19_PreparationFailureReverted ==
    (/\ pc[Self] = "done"
     /\ ret \in {"err_backup", "err_resolve", "err_populate"}
     /\ restore # "failed")
    => real = pre

\* C20: the managed process is started only by a run in which no step before
\* the start met an error: a source was found, the working location was
\* filled, and the run does not return an error of one of these steps; and a
\* run that returns such an error has not started the process.
C20_ErrorBeforeStartAborts ==
    /\ rLaunched => (rFound /\ rRet \in {"none", "ok"})
    /\ rRet \in {"err_resolve", "err_populate", "err_setup", "err_start"}
       => ~rLaunched

\* C21: when the game was started and has exited by itself, with no
\* interrupt, LaunchGame returns nil whatever the sync-back and the deferred
\* teardown steps returned.
C21_NormalExitReportsSuccess ==
    (pc[Self] = "done" /\ game = "exited" /\ ~ctxDone) => ret = "ok"

\* ================================================================ SpecSandbox
\* The places of the file system a sandbox session can name: the user's real
\* save directory (cfg.UserSavePath), the instance root made by os.MkdirTemp
\* and the directories of the targets.
Places == {"real", "root", "a", "b"}
\* The place of the i-th target when its path is not the real save directory.
OwnPlace(i) == IF i = 1 THEN "a" ELSE "b"

\* cleanupInstanceEnvironment(instanceRoot): os.RemoveAll(instanceRoot).
cleanupInstanceEnvironment(instanceRoot) == RemoveAll(instanceRoot)

\* The save directory handed to the user's real location in place of the
\* instance.
instanceSaveDir_real(instanceRoot) == "real"

\* setupInstanceEnvironment: instanceSaveDir is a directory below
\* instanceRoot; the tree below the root is one place of the model.
instanceSaveDir(instanceRoot) == instanceRoot

\* The targets of a sandbox session: a directory that is present or one
\* whose query fails; one or two of them, one at least not a cloud target.
SandTargets == { t \in Targets : t.status # "absent" /\ t.mtime = ZeroTime }
SandRegistries ==
    { r \in { <<a>> : a \in SandTargets } \cup
            { <<a, b>> : a, b \in SandTargets } :
      \E i \in DOMAIN r : r[i].type # Gdrive }

sandRest == <<sbTargets, sbPath, sbQuit, sbPre>>
sandOthers == <<syncVars, resolveVars, lockVars, swapRest, watchVars, quitVars,
               envVars, cfgVars, passVars,
                launchVars, dlVars>>

\* The directory of latestSourceTarget; the zero value's path "" is absent.
SourceDir == IF sbLatest = 0 THEN NoDir ELSE sbFs[sbPath[sbLatest]]
SourceType == IF sbLatest = 0 THEN Local ELSE sbTargets[sbLatest].type

\* runIsolatedMode, the loop over cfg.SyncTargets: no error is returned when
\* nothing was found.
SandResolve ==
    /\ sbpc = "resolve"
    /\ sbLatest' = LatestAfter(sbTargets, Len(sbTargets), FALSE).latest
    /\ sbpc' = "mkdir"
    /\ UNCHANGED <<sandRest, sbFs, sbRet, sbGame, sbCancelled, sbIdx,
                   sbCreated, sbCleanup, sbLogged, sbPopulated, sbWaited>>
    /\ UNCHANGED <<sandOthers, faults>>

\* setupInstanceEnvironment, os.MkdirTemp and os.MkdirAll: when MkdirTemp
\* fails there is no root; when MkdirAll fails the root is removed.
SandMkdir ==
    /\ sbpc = "mkdir"
    /\ LET S == { Outcome(FALSE, EmptyDir), Outcome(TRUE, NoDir),
                  Outcome(TRUE, EmptyDir) }
       IN  \E o \in Allowed(S) :
            /\ Count(S, o)
            /\ sbFs' = [sbFs EXCEPT !["root"] = o.dst]
            /\ sbCreated' = o.dst.exists
            /\ IF ~o.err THEN sbpc' = "populate" /\ sbRet' = sbRet
               ELSE /\ sbRet' = "err_setup"
                    /\ sbpc' = IF o.dst.exists THEN "undo" ELSE "done"
    /\ UNCHANGED <<sandRest, sbLatest, sbGame, sbCancelled, sbIdx, sbCleanup,
                   sbLogged, sbPopulated, sbWaited>>
    /\ UNCHANGED sandOthers

\* setupInstanceEnvironment, copyFromMaster(cfg, sourceTarget,
\* instanceSaveDir); when it returns nil runIsolatedMode defers
\* cleanupInstanceEnvironment.
SandPopulate ==
    /\ sbpc = "populate"
    /\ LET to == instanceSaveDir("root")
           S == copyFromMaster(SourceType, SourceDir, sbFs[to])
       IN  \E o \in Allowed(S) :
            /\ Count(S, o)
            /\ sbFs' = [sbFs EXCEPT ![to] = o.dst]
            /\ IF o.err THEN /\ sbRet' = "err_setup" /\ sbpc' = "undo"
                             /\ sbPopulated' = sbPopulated
               ELSE /\ sbRet' = sbRet /\ sbpc' = "start"
                    /\ sbPopulated' = TRUE
    /\ UNCHANGED <<sandRest, sbLatest, sbGame, sbCancelled, sbIdx, sbCreated,
                   sbCleanup, sbLogged, sbWaited>>
    /\ UNCHANGED sandOthers

\* setupInstanceEnvironment, os.RemoveAll(instanceRoot) before it returns an
\* error: the result of RemoveAll is dropped. The call follows a failed
\* operation on the same tree and may fail whatever has failed before.
SandUndo ==
    /\ sbpc = "undo"
    /\ \E o \in RemoveAll(sbFs["root"]) :
            /\ sbFs' = [sbFs EXCEPT !["root"] = o.dst]
            /\ sbCleanup' = IF o.err THEN "failed" ELSE "ok"
    /\ sbpc' = "done"
    /\ UNCHANGED <<sandRest, sbLatest, sbRet, sbGame, sbCancelled, sbIdx,
                   sbCreated, sbLogged, sbPopulated, sbWaited>>
    /\ UNCHANGED <<sandOthers, faults>>

\* cmd.Start: on an error runIsolatedMode returns it and the deferred
\* cleanup runs.
SandStart ==
    /\ sbpc = "start"
    /\ LET S == Plain(NoDir)
       IN  \E o \in Allowed(S) :
            /\ Count(S, o)
            /\ IF o.err
               THEN sbRet' = "err_start" /\ sbpc' = "cleanup" /\ sbGame' = sbGame
               ELSE sbRet' = sbRet /\ sbpc' = "wait" /\ sbGame' = "running"
    /\ UNCHANGED <<sandRest, sbFs, sbLatest, sbCancelled, sbIdx, sbCreated,
                   sbCleanup, sbLogged, sbPopulated, sbWaited>>
    /\ UNCHANGED sandOthers

\* The game, started with the environment of getModifiedEnv, writes its save
\* files below the instance root.
SandGameWrite ==
    /\ sbGame = "running"
    /\ sbFs' = [sbFs EXCEPT !["root"] = GameTree]
    /\ sbFs' # sbFs
    /\ UNCHANGED <<sandRest, sbLatest, sbpc, sbRet, sbGame, sbCancelled, sbIdx,
                   sbCreated, sbCleanup, sbLogged, sbPopulated, sbWaited>>
    /\ UNCHANGED <<sandOthers, faults>>

\* The game exits by itself.
SandGameExit ==
    /\ sbGame = "running"
    /\ sbGame' = "exited"
    /\ UNCHANGED <<sandRest, sbFs, sbLatest, sbpc, sbRet, sbCancelled, sbIdx,
                   sbCreated, sbCleanup, sbLogged, sbPopulated, sbWaited>>
    /\ UNCHANGED <<sandOthers, faults>>

\* os.Interrupt or syscall.SIGTERM reaches the goroutine started after
\* signal.Notify: cmd.Process.Kill() and cancel().
SandSignal ==
    /\ sbpc \in {"wait", "copyback"} /\ ~sbCancelled
    /\ sbGame' = IF sbGame = "running" THEN "killed" ELSE sbGame
    /\ sbCancelled' = TRUE
    /\ UNCHANGED <<sandRest, sbFs, sbLatest, sbpc, sbRet, sbIdx, sbCreated,
                   sbCleanup, sbLogged, sbPopulated, sbWaited>>
    /\ UNCHANGED <<sandOthers, faults>>

\* A background sync of StartBackgroundSync(ctx, cfg, instanceSaveDir):
\* CopyToMaster from the instance save directory to a target after the
\* first; its error is logged.
SandBackgroundSync ==
    /\ sbpc = "wait" /\ ~sbCancelled
    /\ \E i \in DOMAIN sbTargets \ {1} :
        LET S == CopyToMaster(sbFs[instanceSaveDir("root")], sbTargets[i].type,
                              sbFs[sbPath[i]])
        IN  \E o \in Allowed(S) :
             /\ Count(S, o)
             /\ sbFs' = [sbFs EXCEPT ![sbPath[i]] = o.dst]
    /\ sbFs' # sbFs
    /\ UNCHANGED <<sandRest, sbLatest, sbpc, sbRet, sbGame, sbCancelled, sbIdx,
                   sbCreated, sbCleanup, sbLogged, sbPopulated, sbWaited>>
    /\ UNCHANGED sandOthers

\* cmd.Wait() returns once the game has ended.
SandWait ==
    /\ sbpc = "wait" /\ Wait(sbGame)
    /\ sbpc' = "copyback" /\ sbIdx' = 1 /\ sbWaited' = TRUE
    /\ UNCHANGED <<sandRest, sbFs, sbLatest, sbRet, sbGame, sbCancelled,
                   sbCreated, sbCleanup, sbLogged, sbPopulated>>
    /\ UNCHANGED <<sandOthers, faults>>

\* One round of the loop of copySavesBack(cfg, instanceSaveDir).
SandCopyBack ==
    /\ sbpc = "copyback" /\ sbIdx <= Len(sbTargets)
    /\ IF ~sbQuit[sbIdx] THEN UNCHANGED <<sbFs, faults>>
       ELSE LET S == CopyToMaster(sbFs[instanceSaveDir("root")],
                                  sbTargets[sbIdx].type, sbFs[sbPath[sbIdx]])
            IN  \E o \in Allowed(S) :
                 /\ Count(S, o)
                 /\ sbFs' = [sbFs EXCEPT ![sbPath[sbIdx]] = o.dst]
    /\ sbIdx' = sbIdx + 1
    /\ UNCHANGED <<sandRest, sbLatest, sbpc, sbRet, sbGame, sbCancelled,
                   sbCreated, sbCleanup, sbLogged, sbPopulated, sbWaited>>
    /\ UNCHANGED sandOthers

\* copySavesBack has returned: runIsolatedMode returns nil and the deferred
\* cancel() runs, before the deferred cleanup.
SandReturn ==
    /\ sbpc = "copyback" /\ sbIdx > Len(sbTargets)
    /\ sbRet' = "ok" /\ sbCancelled' = TRUE /\ sbpc' = "cleanup"
    /\ UNCHANGED <<sandRest, sbFs, sbLatest, sbGame, sbIdx, sbCreated,
                   sbCleanup, sbLogged, sbPopulated, sbWaited>>
    /\ UNCHANGED <<sandOthers, faults>>

\* The deferred cleanupInstanceEnvironment(instanceRoot): an error of
\* os.RemoveAll is logged as a warning.
SandCleanup ==
    /\ sbpc = "cleanup"
    /\ LET S == cleanupInstanceEnvironment(sbFs["root"])
       IN  \E o \in Allowed(S) :
            /\ Count(S, o)
            /\ sbFs' = [sbFs EXCEPT !["root"] = o.dst]
            /\ sbCleanup' = IF o.err THEN "failed" ELSE "ok"
            /\ sbLogged' = o.err
    /\ sbpc' = "done"
    /\ UNCHANGED <<sandRest, sbLatest, sbRet, sbGame, sbCancelled, sbIdx,
                   sbCreated, sbPopulated, sbWaited>>
    /\ UNCHANGED sandOthers

\* A session starts: the real save directory is the path of a local target
\* or of none; config.Load has set the flag of the first target.
SandInit ==
    /\ sbTargets \in SandRegistries
    /\ sbPath \in { q \in [DOMAIN sbTargets -> Places \ {"root"}] :
                      \A i \in DOMAIN sbTargets :
                          \/ q[i] = OwnPlace(i)
                          \/ q[i] = "real" /\ sbTargets[i].type = Local }
    /\ sbQuit \in { q \in [DOMAIN sbTargets -> BOOLEAN] : q[1] }
    /\ sbPre = Dir([f \in Files |-> "u"])
    /\ sbFs = [l \in Places |->
                 IF l = "root" THEN NoDir
                 ELSE IF \E i \in DOMAIN sbTargets : sbPath[i] = l
                 THEN DirOf(sbTargets[CHOOSE i \in DOMAIN sbTargets : sbPath[i] = l])
                 ELSE IF l = "real" THEN sbPre ELSE NoDir]
    /\ sbLatest = 0 /\ sbpc = "resolve" /\ sbRet = "none" /\ sbGame = "none"
    /\ sbCancelled = FALSE /\ sbIdx = 0 /\ sbCreated = FALSE
    /\ sbCleanup = "none" /\ sbLogged = FALSE
    /\ sbPopulated = FALSE /\ sbWaited = FALSE

SandNext ==
    \/ SandResolve \/ SandMkdir \/ SandPopulate \/ SandUndo \/ SandStart
    \/ SandGameWrite \/ SandGameExit \/ SandSignal \/ SandBackgroundSync
    \/ SandWait \/ SandCopyBack \/ SandReturn \/ SandCleanup

InitSandbox == SandInit /\ SyncIdle /\ ResolveIdle /\ LockIdle /\ SwapIdle /\ WatchIdle /\ QuitIdle /\ EnvIdle /\ CfgIdle /\ PassIdle /\ LaunchIdle /\ DlIdle

SpecSandbox == InitSandbox /\ [][SandNext]_vars


\* C22: when a sandbox session in which the instance root was created has
\* ended, the removal of the root has been carried out; when the removal
\* succeeded the root is gone, when it failed the failure was logged, and the
\* result is the one the session had without regard to the removal.
C22_SandboxRootDeleted ==
    (sbpc = "done" /\ sbCreated)
    => /\ sbCleanup # "none"
       /\ sbCleanup = "ok" => ~sbFs["root"].exists
       /\ sbCleanup = "failed" => sbLogged
       /\ sbRet = IF ~sbPopulated THEN "err_setup"
                  ELSE IF sbGame = "none" THEN "err_start" ELSE "ok"


\* ==================================================================== SpecEnv
\* The longest inherited environment.
MaxEnv == 3

\* An entry of os.Environ(): name=value, or a string without '='.
EnvEntry(name, eq, value) == [name |-> name, eq |-> eq, value |-> value]
EnvNames == {"USERPROFILE", "UserProfile", "appdata", "LOCALAPPDATA", "Path",
             "HOME"}
EnvEntries == { EnvEntry(n, eq, "x") : n \in EnvNames, eq \in BOOLEAN }
Environments == UNION { [1..n -> EnvEntries] : n \in 0..MaxEnv }

\* The upper-casing that leaves every name as it is.
ToUpper_same(name) == name

\* strings.ToUpper on the names of the model.
ToUpper(name) ==
    CASE name = "UserProfile" -> "USERPROFILE"
      [] name = "appdata" -> "APPDATA"
      [] name = "Path" -> "PATH"
      [] OTHER -> name

varsToOverride == {"USERPROFILE", "APPDATA", "LOCALAPPDATA"}

\* The loop of getModifiedEnv over originalEnv: strings.SplitN(e, "=", 2)
\* gives two parts exactly when e holds '='; an entry without it is kept.
RECURSIVE Filtered(_)
Filtered(e) ==
    IF e = <<>> THEN <<>>
    ELSE LET parts == IF Head(e).eq THEN 2 ELSE 1
             keep == parts # 2 \/ ToUpper(Head(e).name) \notin varsToOverride
         IN  (IF keep THEN <<Head(e)>> ELSE <<>>) \o Filtered(Tail(e))

\* getModifiedEnv(instanceRoot): the entries kept, then the three paths of
\* the sandbox.
getModifiedEnv(instanceRoot) ==
    Filtered(originalEnv) \o
    << EnvEntry("USERPROFILE", TRUE, instanceRoot),
       EnvEntry("APPDATA", TRUE, instanceRoot \o "/AppData/Roaming"),
       EnvEntry("LOCALAPPDATA", TRUE, instanceRoot \o "/AppData/Local") >>

GetModifiedEnv ==
    /\ epc = "call"
    /\ newEnv' = getModifiedEnv("root")
    /\ epc' = "done"
    /\ UNCHANGED originalEnv
    /\ UNCHANGED <<syncVars, resolveVars, lockVars, swapVars, watchVars, quitVars,
                   sandVars, cfgVars, passVars, launchVars, dlVars>>

EnvInit == originalEnv \in Environments /\ newEnv = <<>> /\ epc = "call"

EnvNext == GetModifiedEnv

InitEnv == EnvInit /\ SyncIdle /\ ResolveIdle /\ LockIdle /\ SwapIdle /\ WatchIdle /\ QuitIdle /\ SandIdle /\ CfgIdle /\ PassIdle /\ LaunchIdle /\ DlIdle

SpecEnv == InitEnv /\ [][EnvNext]_vars

\* The name of a variable without regard to letter case, as the system that
\* reads the environment compares names.
Folded(name) ==
    CASE name \in {"USERPROFILE", "UserProfile"} -> "userprofile"
      [] name \in {"APPDATA", "appdata"} -> "appdata"
      [] name = "LOCALAPPDATA" -> "localappdata"
      [] name \in {"PATH", "Path"} -> "path"
      [] OTHER -> name
UserDataNames == {"userprofile", "appdata", "localappdata"}
\* The entry sets a user-data variable.
IsUserData(e) == e.eq /\ Folded(e.name) \in UserDataNames
IsOther(e) == ~IsUserData(e)
InsideRoot == {"root", "root/AppData/Roaming", "root/AppData/Local"}

\* C23: the environment returned by getModifiedEnv sets each of USERPROFILE,
\* APPDATA and LOCALAPPDATA once, counted without regard to letter case, to
\* a path inside the instance root, and its other entries are the other
\* entries of the inherited environment in their order.
C23_EnvOverridesUserData ==
    epc = "done"
    => /\ \A u \in UserDataNames :
            \E i \in DOMAIN newEnv :
                /\ IsUserData(newEnv[i]) /\ Folded(newEnv[i].name) = u
                /\ newEnv[i].value \in InsideRoot
                /\ \A j \in DOMAIN newEnv :
                      (IsUserData(newEnv[j]) /\ Folded(newEnv[j].name) = u)
                      => j = i
       /\ SelectSeq(newEnv, IsOther) = SelectSeq(originalEnv, IsOther)

\* An inherited environment with a user-data variable in mixed case, an
\* entry without '=' that bears the name of one, and another variable.
C23_Witness ==
    /\ epc = "done"
    /\ originalEnv = << EnvEntry("UserProfile", TRUE, "x"),
                        EnvEntry("LOCALAPPDATA", FALSE, "x"),
                        EnvEntry("Path", TRUE, "x") >>
    /\ Len(newEnv) = 5

\* The places a sandbox session is entitled to write: the instance root and
\* the paths of the configured targets.
Writable == {"root"} \cup { sbPath[i] : i \in DOMAIN sbTargets }

\* C24: at every point of a sandbox session each place that is neither the
\* instance root nor the path of a configured target holds what it held
\* before the session; the user's real save directory is such a place unless
\* a target names it.
C24_SandboxLeavesRealAlone ==
    sbpc # "idle"
    => \A l \in Places \ Writable :
          sbFs[l] = IF l = "real" THEN sbPre ELSE NoDir

\* A whole session (populate, game writes, syncs to both targets, teardown)
\* with the real save directory outside the registry and intact.
C24_Witness ==
    /\ sbpc = "done" /\ sbRet = "ok" /\ sbCleanup = "ok"
    /\ "real" \notin Writable /\ sbFs["real"] = sbPre
    /\ Len(sbTargets) = 2 /\ sbLatest = 1
    /\ sbFs[sbPath[1]] = GameTree /\ sbFs[sbPath[2]] = GameTree

\* C25: the resolver of the swap strategy passes over a target whose
\* directory does not exist as it passes over one whose query fails: the
\* target it returns is one whose directory is present, and when no target's
\* directory is present it returns an error.
C25_NonexistentSkipped ==
    (rMode = "swap" /\ rpc # "loop")
    => /\ rLatest # 0 => rTargets[rLatest].status = "present"
       /\ (\A i \in DOMAIN rTargets : rTargets[i].status # "present")
          => rRet = "err_resolve"

\* ================================================================= SpecParse
\* The longest path of a target string and the longest list of -target flags.
MaxPath == 4
MaxRaw == 2

\* The characters of a path: a letter, the colon and the backslash.
Chars == {"c", ":", "\\"}
Paths == UNION { [1..n -> Chars] : n \in 0..MaxPath }
\* The fields after the path, as strings.Split(raw, "|") returns them.
IntervalFields == {"", "30", "abc"}
QuitFields == {"", "true", "false", "yes"}
FieldLists ==
    { <<>> } \cup { <<i>> : i \in IntervalFields }
    \cup { <<i, q>> : i \in IntervalFields, q \in QuitFields }
Raw(path, fields) == [path |-> path, fields |-> fields]

\* strings.Contains(s, c) and the index of the first c in s (0: none).
Contains(s, c) == \E k \in DOMAIN s : s[k] = c
Index(s, c) == IF Contains(s, c) THEN CHOOSE k \in DOMAIN s :
                                          s[k] = c /\ \A j \in 1..(k - 1) : s[j] # c
               ELSE 0
\* strings.SplitN(s, ":", 2)
SplitN(s) ==
    LET k == Index(s, ":")
    IN  IF k = 0 THEN <<s>>
        ELSE <<SubSeq(s, 1, k - 1), SubSeq(s, k + 1, Len(s))>>

\* strconv.Atoi and strconv.ParseBool on the fields of the model.
Atoi(f) == IF f = "30" THEN [err |-> FALSE, n |-> 30] ELSE [err |-> TRUE, n |-> 0]
ParseBool(f) ==
    IF f \in {"true", "false"} THEN [err |-> FALSE, b |-> f]
    ELSE [err |-> TRUE, b |-> "false"]

\* The test for a cloud target in the two revisions of parseTargetString.
IsRemote(rev, pathPart, remoteParts) ==
    /\ Len(remoteParts) = 2 /\ remoteParts[1] # <<>>
    /\ ~Contains(remoteParts[1], "\\")
    /\ IF rev = "first" THEN Len(remoteParts[1]) < Len(pathPart)
       ELSE Len(remoteParts[1]) > 1

\* config.parseTargetString(raw)
parseTargetString(rev, raw) ==
    LET pathPart == raw.path
        parts == <<pathPart>> \o raw.fields
        remoteParts == SplitN(pathPart)
        remote == IsRemote(rev, pathPart, remoteParts)
        atoi == Atoi(parts[2])
        bool == ParseBool(parts[3])
    IN  [ type |-> IF remote THEN Gdrive ELSE Local,
          RemoteName |-> IF remote THEN remoteParts[1] ELSE <<>>,
          Path |-> IF remote THEN remoteParts[2] ELSE pathPart,
          Interval |-> IF Len(parts) > 1 /\ parts[2] # "" /\ ~atoi.err
                       THEN atoi.n ELSE 0,
          SyncOnQuit |-> IF Len(parts) > 2 /\ parts[3] # "" /\ ~bool.err
                         THEN bool.b ELSE "unset" ]

cfgOthers == <<syncVars, resolveVars, lockVars, swapVars, watchVars, quitVars,
               sandVars, envVars, passVars,
                launchVars, dlVars>>

\* One call of parseTargetString.
ParseTarget ==
    /\ cpc = "parse"
    /\ cfgTargets' = <<parseTargetString(revision, rawTargets[1])>>
    /\ cpc' = "done"
    /\ UNCHANGED <<revision, rawTargets, cfgErr>>
    /\ UNCHANGED cfgOthers

ParseInit ==
    /\ revision \in {"first", "second"}
    /\ rawTargets \in { <<Raw(p, f)>> : p \in Paths, f \in FieldLists }
    /\ cfgTargets = <<>> /\ cfgErr = FALSE /\ cpc = "parse"

ParseNext == ParseTarget

InitParse == ParseInit /\ SyncIdle /\ ResolveIdle /\ LockIdle /\ SwapIdle /\ WatchIdle /\ QuitIdle /\ SandIdle /\ EnvIdle /\ PassIdle /\ LaunchIdle /\ DlIdle

SpecParse == InitParse /\ [][ParseNext]_vars

\* C26: parseTargetString makes a cloud target of a path whose first colon
\* follows a prefix of two characters or more, with the prefix as the remote
\* name and the rest as the path, and a local target with the whole path of
\* every other path.
C26_RemoteIffLongPrefix ==
    cpc = "done" /\ Len(rawTargets) = 1 /\ Len(cfgTargets) = 1
    => LET p == rawTargets[1].path
           k == Index(p, ":")
           t == cfgTargets[1]
       IN  IF k > 2
           THEN /\ t.type = Gdrive
                /\ t.RemoteName = SubSeq(p, 1, k - 1)
                /\ t.Path = SubSeq(p, k + 1, Len(p))
           ELSE t.type = Local /\ t.Path = p

\* ================================================================== SpecLoad
\* The paths of the -target flags: a local directory and a cloud directory.
LoadPaths == { <<"c">>, <<"c", "c", ":", "c">> }
LoadRaws == { Raw(p, f) : p \in LoadPaths, f \in FieldLists }

\* The loop of Load over the -target flags: parseTargetString, then the
\* settings of the first target.
SyncTargets(rev, targets) ==
    [ i \in DOMAIN targets |->
        LET target == parseTargetString(rev, targets[i])
        IN  IF i = 1
            THEN [target EXCEPT !.SyncOnQuit = "true",
                                !.Interval = IF rev = "first" THEN -1 ELSE @]
            ELSE target ]

\* config.Load: it returns an error when the home directory or the path of
\* the executable cannot be found, and for nothing else.
Load ==
    /\ cpc = "load"
    /\ \E failed \in BOOLEAN :
          /\ cfgErr' = failed
          /\ cfgTargets' = IF failed THEN <<>>
                           ELSE SyncTargets(revision, rawTargets)
    /\ cpc' = "done"
    /\ UNCHANGED <<revision, rawTargets>>
    /\ UNCHANGED cfgOthers

LoadInit ==
    /\ revision \in {"first", "second"}
    /\ rawTargets \in UNION { [1..n -> LoadRaws] : n \in 1..MaxRaw }
    /\ cfgTargets = <<>> /\ cfgErr = FALSE /\ cpc = "load"

LoadNext == Load

InitLoad == LoadInit /\ SyncIdle /\ ResolveIdle /\ LockIdle /\ SwapIdle /\ WatchIdle /\ QuitIdle /\ SandIdle /\ EnvIdle /\ PassIdle /\ LaunchIdle /\ DlIdle

SpecLoad == InitLoad /\ [][LoadNext]_vars

\* The fields of a target string as its writer meant them: the interval
\* field and the sync-on-exit field, "" when the field is not given.
FieldOf(raw, n) == IF Len(raw.fields) >= n THEN raw.fields[n] ELSE ""
\* The target string is malformed: a field is given and has no value of its
\* type.
Malformed(raw) ==
    \/ FieldOf(raw, 1) \notin {"", "30"}
    \/ FieldOf(raw, 2) \notin {"", "true", "false"}

\* C27: a Load that met a malformed target string has returned an error.
C27_MalformedTargetRejected ==
    (cpc = "done" /\ \E i \in DOMAIN rawTargets : Malformed(rawTargets[i]))
    => cfgErr

\* C28: after a successful Load the sync-on-exit flag of a target is the
\* value its string gives; without one it is true for the first target and
\* unset for every other target.
C28_FirstTargetQuitDefault ==
    (cpc = "done" /\ ~cfgErr /\ Len(cfgTargets) = Len(rawTargets))
    => \A i \in DOMAIN rawTargets :
          LET given == FieldOf(rawTargets[i], 2)
          IN  cfgTargets[i].SyncOnQuit =
                 IF given \in {"true", "false"} THEN given
                 ELSE IF i = 1 THEN "true" ELSE "unset"

\* The real save directory holds every file of the latest source.
Populated ==
    latest # 0
    /\ \A f \in Present(store[latest]) : real.files[f] = store[latest].files[f]

\* C29: the steps of a session come in their order. The game is started by
\* a launcher that holds the lock and has filled the working location from
\* the source, a target is written by the exit sync-back only after the wait
\* for the game's exit has returned with the game ended, and the restore and
\* the release of the lock come after the body of the session has returned;
\* the same for the session of the sandbox.
C29_StepsInOrder ==
    [][ /\ (game = "none" /\ game' = "running")
           => (pc[Self] = "start" /\ lret[Self] = "ok" /\ Populated)
        /\ (store' # store)
           => (pc[Self] = "swapout" /\ game \in {"exited", "killed"})
        /\ (restore' # restore \/ (lock = LockOf(Self) /\ lock' # lock))
           => (ret # "none" /\ game # "running")
        /\ (sbGame = "none" /\ sbGame' = "running")
           => (sbpc = "start" /\ sbPopulated)
        /\ (sbIdx >= 1 /\ sbIdx' # sbIdx)
           => (sbWaited /\ sbGame \in {"exited", "killed"})
        /\ (sbpc' = "cleanup")
           => (sbGame # "running") ]_vars

\* A session that went through every step: lock, backup, populate, run,
\* sync-back, restore, release.
C29_Witness ==
    /\ pc[Self] = "done" /\ lret[Self] = "ok" /\ ret = "ok"
    /\ game = "exited" /\ backupPath # "" /\ restore = "ok" /\ ~lock.exists
    /\ latest # 0 /\ store[latest] = GameTree

\* ================================================================== SpecPass
\* The most passes followed at once and the most watcher targets.
MaxPasses == 2
MaxPassTargets == 2

passOthers == <<syncVars, resolveVars, lockVars, swapVars, watchVars, quitVars,
                sandVars, envVars, cfgVars,
                launchVars, dlVars>>

\* StartBackgroundSync, the loop over backupTargets: the watcherTargets slice
\* after the targets from index i on have been appended in their order.
RECURSIVE watcherSlice(_, _)
watcherSlice(targets, i) ==
    IF i > Len(targets) THEN <<>>
    ELSE (IF targets[i] = 0 THEN <<i>> ELSE <<>>) \o watcherSlice(targets, i + 1)

\* for _, t := range targets: the position after position k of the slice.
NextTarget(k) == k + 1

\* The registries with at least one watcher target: the first target and
\* backup targets that are watched or periodic.
PassRegistries ==
    { r \in UNION { [1..n -> Intervals] : n \in 2..(MaxPassTargets + 1) } :
        /\ \A i \in DOMAIN r : i > 1 => r[i] >= 0
        /\ watcherTargets(r) # {} }

\* The handler goroutine receives a write event: under mu it stops the timer
\* and starts a new one with time.AfterFunc. mu is released before the
\* handler returns and is not taken by the function of the timer.
PassWrite ==
    /\ pWrites < MaxWrites
    /\ pWrites' = pWrites + 1
    /\ pTimer' = Stop(pTimer) \cup {pNow + debounceDuration}
    /\ UNCHANGED <<pNow, pTargets, pRunning, pRegistry, pLog, pLast>>
    /\ UNCHANGED passOthers

\* The timer fires: time.AfterFunc runs its function in a goroutine of its
\* own, which starts the loop over the watcher targets at the first target.
PassBegins ==
    /\ pNow \in pTimer
    /\ Len(pRunning) < MaxPasses
    /\ pTimer' = {}
    /\ pRunning' = Append(pRunning, 1)
    /\ pLog' = Append(pLog, <<>>)
    /\ UNCHANGED <<pNow, pTargets, pWrites, pRegistry, pLast>>
    /\ UNCHANGED passOthers

\* The sequence without its k-th element.
Without(q, k) == SubSeq(q, 1, k - 1) \o SubSeq(q, k + 1, Len(q))

\* The Sync of a pass to its current target returns, with an error or
\* without: the pass goes on to the next target, or ends after the last one.
PassSyncReturns ==
    /\ \E k \in DOMAIN pRunning :
        LET synced == Append(pLog[k], watcherSlice(pRegistry, 2)[pRunning[k]])
        IN  IF NextTarget(pRunning[k]) <= pTargets
            THEN /\ pRunning' = [pRunning EXCEPT ![k] = NextTarget(@)]
                 /\ pLog' = [pLog EXCEPT ![k] = synced]
                 /\ pLast' = pLast
            ELSE /\ pRunning' = Without(pRunning, k)
                 /\ pLog' = Without(pLog, k)
                 /\ pLast' = synced
    /\ UNCHANGED <<pNow, pTimer, pTargets, pWrites, pRegistry>>
    /\ UNCHANGED passOthers

\* A second passes; a timer that is due fires first.
PassTick ==
    /\ pNow < MaxClock
    /\ \A d \in pTimer : d > pNow
    /\ pNow' = pNow + 1
    /\ UNCHANGED <<pTimer, pTargets, pRunning, pWrites, pRegistry, pLog, pLast>>
    /\ UNCHANGED passOthers

PassInit ==
    /\ pNow = 0 /\ pTimer = {}
    /\ pRegistry \in PassRegistries
    /\ pTargets = Len(watcherSlice(pRegistry, 2))
    /\ pRunning = <<>> /\ pWrites = 0 /\ pLog = <<>> /\ pLast = <<>>

PassNext == PassWrite \/ PassBegins \/ PassSyncReturns \/ PassTick

InitPass == PassInit /\ SyncIdle /\ ResolveIdle /\ LockIdle /\ SwapIdle /\ WatchIdle /\ QuitIdle /\ SandIdle /\ EnvIdle /\ CfgIdle /\ LaunchIdle /\ DlIdle

SpecPass == InitPass /\ [][PassNext]_vars

\* C30: at most one watcher pass is in progress at any time.
C30_PassesSerialized == Len(pRunning) <= 1

\* C31: while a live session has its backup taken and its restoration not
\* yet done, the lock file exists and names that session.
C31_LockHeldWhileSwapped ==
    \A p \in Procs :
        (alive[p] /\ pc[p] = "swapped") => lock = LockOf(p)

\* The targets in watch mode: those with Interval 0.
EventDriven(targets) == { i \in DOMAIN targets : targets[i] = 0 }

\* The log names targets of W in registry order, each at most once, and no
\* target of W before one it names is left out.
InOrder(log, W) ==
    /\ \A a, b \in DOMAIN log : a < b => log[a] < log[b]
    /\ \A a \in DOMAIN log :
          /\ log[a] \in W
          /\ \A w \in W : w < log[a] => \E b \in DOMAIN log : log[b] = w

\* A pass in progress at its k-th target has synced the k-1 first targets
\* of W once each, and a pass that has ended has synced every target of W
\* exactly once, all in registry order.
OnceInOrder(W) ==
    /\ \A k \in DOMAIN pRunning :
          InOrder(pLog[k], W) /\ Len(pLog[k]) = pRunning[k] - 1
    /\ pLast # <<>> =>
          InOrder(pLast, W) /\ { pLast[a] : a \in DOMAIN pLast } = W

\* C32: a pass started by the debounce timer syncs every target in watch
\* mode exactly once, one target after the other, in registry order.
C32_PassSyncsEachOnceInOrder == OnceInOrder(EventDriven(pRegistry))

\* The reachable targets whose modification time is the greatest.
Greatest == { i \in Reachable : \A j \in Reachable : TimeOf(j) <= TimeOf(i) }

\* C33: when two or more reachable targets share the greatest modification
\* time, the resolver returns the one of them that is first in the registry.
C33_TieGoesToFirst ==
    (Resolved /\ Cardinality(Greatest) >= 2)
    => (rLatest \in Greatest /\ \A i \in Greatest : rLatest <= i)

\* An older target first, then two targets of the same greatest time: the
\* second of the registry is returned.
C33_Witness ==
    /\ Resolved /\ Len(rTargets) = 3 /\ Reachable = {1, 2, 3}
    /\ TimeOf(1) < TimeOf(2) /\ TimeOf(2) = TimeOf(3)
    /\ rLatest = 2

\* ================================================================ SpecLaunch
\* The most targets of a registry handed to LaunchGame.
MaxLaunchTargets == 2

launchOthers == <<syncVars, resolveVars, lockVars, swapVars, watchVars,
                  quitVars, sandVars, envVars, cfgVars, passVars, dlVars>>

LaunchRegistries == UNION { [1..n -> Targets] : n \in 0..MaxLaunchTargets }

\* cfg.UserSavePath: a directory whose newest file has the given time, no
\* directory, or a directory whose walk fails.
LocalSaves ==
    { Target(Local, st, t) : st \in {"present", "unreachable"}, t \in Times }
    \cup { Target(Local, "absent", ZeroTime) }

\* LaunchGame of the second revision: allCloud is true when no target has a
\* type other than Gdrive.
allCloud(targets) == \A i \in DOMAIN targets : targets[i].type = Gdrive

\* The strategy LaunchGame calls for a registry: the first revision knows
\* launchFireAndForget and the swap, the second launchFireAndForget,
\* runOnlineOnlyMode and runIsolatedMode.
StrategyOf(rev, targets) ==
    IF Len(targets) = 0 THEN "direct"
    ELSE IF rev = "first" THEN "swap"
    ELSE IF allCloud(targets) THEN "online"
    ELSE "sandbox"

\* LaunchGame up to the call of the strategy: without the executable it
\* returns an error. The swap and runIsolatedMode are followed in SpecSwap
\* and SpecSandbox.
LaunchGame ==
    /\ lnpc = "launch"
    /\ IF ~lnExe
       THEN lnStrategy' = "none" /\ lnRet' = "err_exe" /\ lnpc' = "done"
       ELSE /\ lnStrategy' = StrategyOf(lnRevision, lnTargets)
            /\ lnRet' = lnRet
            /\ lnpc' = CASE lnStrategy' = "direct" -> "fire"
                          [] lnStrategy' = "online" -> "o_resolve"
                          [] OTHER -> "handed"
    /\ UNCHANGED <<lnRevision, lnExe, lnTargets, lnLocal, lnNewest, lnFrom,
                   lnGame, lnPre>>
    /\ UNCHANGED launchOthers

\* launchFireAndForget: cmd.Start() and the return, with no cmd.Wait().
launchFireAndForget ==
    /\ lnpc = "fire"
    /\ \E started \in BOOLEAN :
          /\ lnGame' = IF started THEN "running" ELSE lnGame
          /\ lnRet' = IF started THEN "ok" ELSE "err_start"
    /\ lnpc' = "done"
    /\ UNCHANGED <<lnRevision, lnExe, lnTargets, lnLocal, lnStrategy, lnNewest,
                   lnFrom, lnPre>>
    /\ UNCHANGED launchOthers

\* runOnlineOnlyMode, the loop over cfg.SyncTargets: newestCloudTarget (0:
\* nil) and newestCloudTime after the targets up to n. A target whose query
\* fails is left out; there is no first-found flag.
RECURSIVE NewestAfter(_, _)
NewestAfter(targets, n) ==
    IF n = 0 THEN [newest |-> 0, time |-> ZeroTime]
    ELSE LET prev == NewestAfter(targets, n - 1)
             q == GetCloudDirLastModTime(targets[n], FALSE)
         IN  IF q.err THEN prev
             ELSE IF After(q.time, prev.time)
                  THEN [newest |-> n, time |-> q.time]
                  ELSE prev

\* newestCloudTarget != nil && newestCloudTime.After(localModTime)
SyncDownNeeded(newest, newestCloudTime, localModTime) ==
    newest # 0 /\ After(newestCloudTime, localModTime)

\* runOnlineOnlyMode up to the decision: localModTime, _ :=
\* util.GetDirLastModTime(localSavePath) drops the error, which leaves the
\* zero time; then the loop and the comparison.
OnlineResolve ==
    /\ lnpc = "o_resolve"
    /\ LET localModTime == GetDirLastModTime(lnLocal).time
           r == NewestAfter(lnTargets, Len(lnTargets))
       IN  /\ lnNewest' = r.newest
           /\ lnpc' = IF SyncDownNeeded(r.newest, r.time, localModTime)
                      THEN "o_syncdown" ELSE "o_start"
    /\ UNCHANGED <<lnRevision, lnExe, lnTargets, lnLocal, lnStrategy, lnFrom,
                   lnGame, lnRet, lnPre>>
    /\ UNCHANGED launchOthers

\* backup.RunRcloneCommand(cfg, "sync", remotePath, localSavePath): the local
\* save directory becomes a copy of the remote one; when the command fails
\* it may have been changed already, and runOnlineOnlyMode returns.
OnlineSyncDown ==
    /\ lnpc = "o_syncdown"
    /\ lnFrom' = lnNewest
    /\ \E failed \in BOOLEAN :
          /\ lnLocal' \in { Target(Local, "present", lnTargets[lnNewest].mtime) }
                          \cup (IF failed THEN {lnLocal} ELSE {})
          /\ lnRet' = IF failed THEN "err_syncdown" ELSE lnRet
          /\ lnpc' = IF failed THEN "done" ELSE "o_start"
    /\ UNCHANGED <<lnRevision, lnExe, lnTargets, lnStrategy, lnNewest, lnGame,
                   lnPre>>
    /\ UNCHANGED launchOthers

\* runOnlineOnlyMode, cmd.Start().
OnlineStart ==
    /\ lnpc = "o_start"
    /\ \E started \in BOOLEAN :
          IF started THEN lnGame' = "running" /\ lnRet' = lnRet /\ lnpc' = "o_wait"
          ELSE lnGame' = lnGame /\ lnRet' = "err_start" /\ lnpc' = "done"
    /\ UNCHANGED <<lnRevision, lnExe, lnTargets, lnLocal, lnStrategy, lnNewest,
                   lnFrom, lnPre>>
    /\ UNCHANGED launchOthers

\* The player quits the game.
LaunchedGameExit ==
    /\ lnGame = "running"
    /\ lnGame' = "exited"
    /\ UNCHANGED <<lnRevision, lnExe, lnTargets, lnLocal, lnStrategy, lnpc,
                   lnNewest, lnFrom, lnRet, lnPre>>
    /\ UNCHANGED launchOthers

\* runOnlineOnlyMode, cmd.Wait().
OnlineWait ==
    /\ lnpc = "o_wait"
    /\ Wait(lnGame)
    /\ lnpc' = "o_back"
    /\ UNCHANGED <<lnRevision, lnExe, lnTargets, lnLocal, lnStrategy, lnNewest,
                   lnFrom, lnGame, lnRet, lnPre>>
    /\ UNCHANGED launchOthers

\* runOnlineOnlyMode, the loop of CopyToMaster over the targets (followed in
\* SpecQuit) and return nil.
OnlineSyncBack ==
    /\ lnpc = "o_back"
    /\ lnRet' = "ok"
    /\ lnpc' = "done"
    /\ UNCHANGED <<lnRevision, lnExe, lnTargets, lnLocal, lnStrategy, lnNewest,
                   lnFrom, lnGame, lnPre>>
    /\ UNCHANGED launchOthers

LaunchInit ==
    /\ lnRevision \in {"first", "second"}
    /\ lnExe \in BOOLEAN
    /\ lnTargets \in LaunchRegistries
    /\ lnLocal \in LocalSaves
    /\ lnPre = lnLocal
    /\ lnStrategy = "none" /\ lnpc = "launch"
    /\ lnNewest = 0 /\ lnFrom = 0 /\ lnGame = "none" /\ lnRet = "none"

LaunchNext ==
    \/ LaunchGame \/ launchFireAndForget
    \/ OnlineResolve \/ OnlineSyncDown \/ OnlineStart
    \/ LaunchedGameExit \/ OnlineWait \/ OnlineSyncBack

InitLaunch == LaunchInit /\ SyncIdle /\ ResolveIdle /\ LockIdle /\ SwapIdle /\ WatchIdle /\ QuitIdle /\ SandIdle /\ EnvIdle /\ CfgIdle /\ PassIdle /\ DlIdle

SpecLaunch == InitLaunch /\ [][LaunchNext]_vars

\* C34: with the executable present, the strategy LaunchGame runs is given
\* by the registry alone: with no target the direct launch, which returns
\* without waiting for the process; with at least one local target the
\* sandboxed strategy; with remote targets only the direct launch with
\* synchronization before and after.
C34_StrategyFromRegistry ==
    (lnExe /\ lnpc # "launch")
    => /\ lnStrategy = (IF Len(lnTargets) = 0 THEN "direct"
                        ELSE IF \E i \in DOMAIN lnTargets : lnTargets[i].type = Local
                             THEN "sandbox"
                        ELSE "online")
       /\ lnStrategy = "direct" => lnpc \in {"fire", "done"}

\* The remote targets whose query returns no error, and the time of each.
CloudReachable ==
    { i \in DOMAIN lnTargets : ~GetCloudDirLastModTime(lnTargets[i], FALSE).err }
CloudTime(i) == GetCloudDirLastModTime(lnTargets[i], FALSE).time

\* C38: in runOnlineOnlyMode the local save directory is synced down only
\* from a reachable remote target whose modification time is strictly
\* greater than that of the local save directory and is the greatest among
\* the reachable ones; otherwise the local save directory is unchanged when
\* the process is started.
C38_SyncDownOnlyFromNewer ==
    lnStrategy = "online"
    => /\ lnFrom # 0 =>
            /\ lnFrom \in CloudReachable
            /\ CloudTime(lnFrom) > lnPre.mtime
            /\ \A j \in CloudReachable : CloudTime(j) <= CloudTime(lnFrom)
       /\ lnFrom = 0 => lnLocal = lnPre

\* C35: no two background synchronizations to the same target are in
\* progress at the same time.
C35_NoOverlappingSyncs ==
    \A j, k \in DOMAIN pRunning : j # k => pRunning[j] # pRunning[k]

\* C36: a releaseLock step never removes a lock file that names another
\* launcher that is alive.
C36_ReleaseOnlyOwnLock ==
    [][\A p \in Procs :
          (pc[p] = "releaseLock" /\ pc'[p] = "return" /\ lock.exists /\ ~lock'.exists)
          => ~(lock.parses /\ lock.pid # p /\ lock.pid \in Procs /\ alive[lock.pid])]_vars

\* C37: when the real save directory did not exist before the session, it
\* does not exist after LaunchGame has returned.
C37_AbsentRealStaysAbsent ==
    (pc[Self] = "done" /\ ~PathExists(pre)) => real = pre

\* ============================================================== SpecSwapLive
\* The steps of the launcher itself: every call of LaunchGame returns, so
\* a launcher that can take a step takes it.
LauncherStep ==
    \/ CheckExe
    \/ AcqExists(Self) \/ AcqRead(Self) \/ AcqProbe(Self) \/ AcqRemove(Self)
    \/ AcqWrite(Self)
    \/ BackupCheck \/ BackupMkdirTemp \/ BackupCopy \/ BackupRemove
    \/ SwapResolve \/ SwapIn \/ SwapStart
    \/ SwapWait \/ SwapOut
    \/ Return(Self)
    \/ RestoreCheck \/ RestoreRemove \/ RestoreCopy \/ RestoreCleanup
    \/ releaseLock(Self)

\* The swap session with every call terminating and a game that exits
\* unless it is killed first.
SpecSwapLive ==
    InitSwap /\ [][SwapNext]_vars /\ WF_vars(LauncherStep) /\ WF_vars(GameExit)

\* LaunchGame has returned, the lock file does not name the session and
\* the real save directory that existed before the session is as it was.
TornDown ==
    /\ pc[Self] = "done"
    /\ lock # LockOf(Self)
    /\ PathExists(pre) => real = pre

\* C39: every swap session eventually reaches the torn-down state.
C39_SessionTornDown == <>TornDown

\* ============================================================== SpecDownload
\* The greatest absolute value of the download-retries setting, and the
\* most download attempts followed.
MaxRetries == 2
MaxAttempts == 4

dlOthers == <<syncVars, resolveVars, lockVars, swapVars, watchVars, quitVars,
              sandVars, envVars, cfgVars, passVars, launchVars>>

\* optionalInt.Set: "true" (the flag without a value) gives -1, every other
\* value is what strconv.Atoi returns, negative numbers included.
RetrySettings == (0 - MaxRetries)..MaxRetries

\* totalAttempts := int(cfg.DownloadRetries) + 1
totalAttempts(retries) == retries + 1

\* The head of the loop `for i := 1; ; i++`: a finite setting leaves the
\* loop when i > totalAttempts; the setting -1 never does.
DlLoop ==
    /\ dpc = "loop"
    /\ IF dRetries # -1 /\ dI > totalAttempts(dRetries)
       THEN dpc' = "after"
       ELSE dAttempts < MaxAttempts /\ dpc' = "download"
    /\ UNCHANGED <<dRetries, dI, dLastErr, dFile, dAttempts, dFrom, dRet>>
    /\ UNCHANGED dlOthers

\* downloadFileWithProgress: on an error lastErr is set and the partial
\* file removed; otherwise the file is there, with the expected content or
\* with another.
DlDownload ==
    /\ dpc = "download"
    /\ dAttempts' = dAttempts + 1
    /\ \/ dFile' = "none" /\ dLastErr' = "download" /\ dpc' = "next"
       \/ dFile' \in {"good", "bad"} /\ dLastErr' = dLastErr /\ dpc' = "verify"
    /\ UNCHANGED <<dRetries, dI, dFrom, dRet>>
    /\ UNCHANGED dlOthers

\* verifySHA1(downloadedFilePath, expectedSHA1): on a mismatch lastErr is set
\* and the file removed; on a match lastErr is nil and the loop is left.
DlVerify ==
    /\ dpc = "verify"
    /\ IF dFile = "good"
       THEN dLastErr' = "nil" /\ dFile' = dFile /\ dpc' = "after"
       ELSE dLastErr' = "verification" /\ dFile' = "none" /\ dpc' = "next"
    /\ UNCHANGED <<dRetries, dI, dAttempts, dFrom, dRet>>
    /\ UNCHANGED dlOthers

\* The end of the loop body after a failed attempt: time.Sleep for the
\* setting -1, then i++.
DlNext ==
    /\ dpc = "next"
    /\ dI' = dI + 1
    /\ dpc' = "loop"
    /\ UNCHANGED <<dRetries, dLastErr, dFile, dAttempts, dFrom, dRet>>
    /\ UNCHANGED dlOthers

\* After the loop: with lastErr set the function returns the error.
DlAfter ==
    /\ dpc = "after"
    /\ IF dLastErr # "nil"
       THEN dRet' = "err_download" /\ dpc' = "done"
       ELSE dRet' = dRet /\ dpc' = "extract"
    /\ UNCHANGED <<dRetries, dI, dLastErr, dFile, dAttempts, dFrom>>
    /\ UNCHANGED dlOthers

\* findExtractor and cmd.CombinedOutput(): the extractor is started on
\* downloadedFilePath; without a file there it fails.
DlExtract ==
    /\ dpc = "extract"
    /\ dFrom' = dFile
    /\ \E failed \in (IF dFile = "none" THEN {TRUE} ELSE BOOLEAN) :
          IF failed THEN dRet' = "err_extract" /\ dpc' = "done"
          ELSE dRet' = dRet /\ dpc' = "rename"
    /\ UNCHANGED <<dRetries, dI, dLastErr, dFile, dAttempts>>
    /\ UNCHANGED dlOthers

\* The game folder of the archive is renamed to the install path; an error
\* when it is not found or os.Rename fails.
DlRename ==
    /\ dpc = "rename"
    /\ dRet' \in {"ok", "err_install"}
    /\ dpc' = "done"
    /\ UNCHANGED <<dRetries, dI, dLastErr, dFile, dAttempts, dFrom>>
    /\ UNCHANGED dlOthers

\* downloadAndExtractHollowKnight is called: var lastErr error, i := 1.
DlInit ==
    /\ dRetries \in RetrySettings
    /\ dI = 1 /\ dpc = "loop" /\ dLastErr = "nil" /\ dFile = "none"
    /\ dAttempts = 0 /\ dFrom = "unstarted" /\ dRet = "none"

DownloadNext ==
    \/ DlLoop \/ DlDownload \/ DlVerify \/ DlNext \/ DlAfter \/ DlExtract
    \/ DlRename

InitDownload == DlInit /\ SyncIdle /\ ResolveIdle /\ LockIdle /\ SwapIdle /\ WatchIdle /\ QuitIdle /\ SandIdle /\ EnvIdle /\ CfgIdle /\ PassIdle /\ LaunchIdle

SpecDownload == InitDownload /\ [][DownloadNext]_vars

\* C40: for every setting of download-retries, the extractor is started
\* only on a file that passed the SHA-1 verification; a setting r other
\* than -1 makes at most r + 1 attempts and returns the download error when
\* none of its attempts passed; attempts go beyond that only with -1.
C40_RetriesBoundedAndVerified ==
    /\ dFrom # "unstarted" => dFrom = "good"
    /\ dRetries # -1 =>
          /\ dAttempts <= (IF dRetries + 1 > 0 THEN dRetries + 1 ELSE 0)
          /\ (dpc = "done" /\ dFrom = "unstarted") => dRet = "err_download"

====
